---------------------------- MODULE Spec2Model ----------------------------
(***************************************************************************)
(* Verification model of the Wasynth translator core:                      *)
(*   - the dead-code elimination pass          (wasm-ir/passes)            *)
(*   - the read/write annotation pass          (wasm-ir/passes)            *)
(*   - the region graph and its mark-and-sweep (ir/data_flow, ir/transform)*)
(*   - the stack-to-tree lifter (Factory)      (wasm-ast/factory.rs)       *)
(*   - the Luau statement emitter              (codegen/luau/backend)      *)
(* Every subsystem has a specification of its own over the shared          *)
(* variables; the variables of the other subsystems stay idle.             *)
(***************************************************************************)
EXTENDS Integers, Sequences, FiniteSets, TLC

(***************************************************************************)
(* Bounds of the model.                                                    *)
(***************************************************************************)
MaxDceLen == 4
MaxTableLen == 3
MaxTarget == 2
MaxRwLen == 8
MaxGraphSize == 5
MaxSpillLen == 5
MaxLiftLen == 6
MaxBoundaryLen == 5
MaxNestedLen == 8
MaxPassLen == 9
MaxDeadLen == 7

\* dead_code_elimination.rs: the input list, the result of one
\* DeadCodeElimination::run, the result of a second run on that result
VARIABLES dce_pc, dce_list, dce_once, dce_twice

\* statement.rs, impl Driver for BrTable: the table written, the ordered
\* list the search tree is generated from, and the lines written;
\* bt_labels is mng.label_list() at the terminator
VARIABLES bt_pc, bt_table, bt_list, bt_out, bt_labels

\* read_write_annotation.rs: the operator list handed to
\* ReadWriteAnnotation::run, the fields of the pass when run returns
\* (rw_pc = "panic": an unwrap of None stopped it) and the map it returned
VARIABLES rw_pc, rw_code, rw_frames, branch_stack, pending_stack,
          rw_result_map

\* data_flow/graph.rs: the fields of Graph (start: the set holding the
\* start node, empty for None); the keys the SlotMap has handed out so far
\* are 1..next_key-1, the regions handed out by add_region are `regions`,
\* and connections counts the calls of add_connection
VARIABLES start, nodes, incoming, next_key, regions, connections

\* transform/mark_and_sweep.rs: the fields of MarkAndSweep, where run
\* stands (idle, mark, swept, panic), the graph as it was when run was
\* called, and whether that graph was the one a run had just left
VARIABLES ms_pc, nodes_visited, nodes_pending, ms_before, ms_again
\* the build: whether debug_assert_eq! is compiled in (cfg(debug_assertions));
\* connected is the history of add_connection the graph still holds: the
\* pairs (from, to) whose `from` is in incoming[to.node]
VARIABLES debug_assertions, connected

\* factory.rs: the Factory (pending, target, nested_unreachable), where
\* create_indexed stands (read, done, panic), the control stack of the
\* validator, the operators read, what the last operator wrote, the
\* FuncData returned, the Brs the emitter has written for it and the lines
\* it has written
VARIABLES factory, lift_pc, lift_ctrl, lift_count, lift_written, func_data,
          lift_brs, lift_out

\* ReadWriteLabel::linear_merge on its own: self and other before the
\* call, and self after it
VARIABLES mg_pc, mg_self, mg_other, mg_out

\* boundary_tracking.rs: the operators handed to BoundaryTracking::run, the
\* pending_stack when run returns (bd_pc = "panic": an unwrap of None
\* stopped it) and the map it returned
VARIABLES bd_pc, bd_code, bd_pending, bd_map

\* demand_annotation.rs: the fields of DemandAnnotation when run returns
\* (dm_pc = "panic": an unwrap of None or a missing key stopped it), the
\* map it returned, and the history of its label_stack: for every Else the
\* offset of the End whose snapshot it popped with that snapshot, and for
\* every End the label_scratch it was handled with
VARIABLES dm_pc, label_scratch, label_stack, dm_result_map, dm_popped,
          dm_at_end

\* build_stat_list beside dead-code elimination: for every operator the
\* loop of build_stat_list has read, the operator, nested_unreachable when
\* it was read, and whether the factory did more with it than count
VARIABLES lift_trace

\* the emitted Luau, run: the lines, the line to run next (0: error has
\* been called; past the last line: the run is over), the locals desired
\* and temp (None is nil), the table br_map[0], the value the condition of
\* the br_table had, and the line that set desired for the jump under way
VARIABLES ex_pc, ex_code, ex_desired, ex_temp, ex_map, ex_cond, ex_from

dceVars == <<dce_pc, dce_list, dce_once, dce_twice>>
mergeVars == <<mg_pc, mg_self, mg_other, mg_out>>
bndVars == <<bd_pc, bd_code, bd_pending, bd_map>>
execVars == <<ex_pc, ex_code, ex_desired, ex_temp, ex_map, ex_cond, ex_from>>
dmVars ==
  <<dm_pc, label_scratch, label_stack, dm_result_map, dm_popped, dm_at_end>>
traceVars == <<lift_trace>>
passVars == <<mergeVars, bndVars, dmVars, traceVars>>
btVars == <<bt_pc, bt_table, bt_list, bt_out, bt_labels>>

rwVars ==
  <<rw_pc, rw_code, rw_frames, branch_stack, pending_stack, rw_result_map>>

graphVars ==
  <<start, nodes, incoming, next_key, regions, connections,
    debug_assertions, connected,
    ms_pc, nodes_visited, nodes_pending, ms_before, ms_again>>

liftVars ==
  <<factory, lift_pc, lift_ctrl, lift_count, lift_written, func_data, lift_brs,
    lift_out>>

vars == <<dceVars, btVars, rwVars, graphVars, liftVars, passVars, execVars>>

(***************************************************************************)
(* wasmparser::Operator, as far as the passes and the lifter look at it:   *)
(* the operator's name, one immediate (a relative depth, a variable,       *)
(* function or memory index, a block type) and the targets of a br_table.  *)
(***************************************************************************)
Op(name, imm) == [op |-> name, a |-> imm, ts |-> <<>>]

\* the non-empty operator streams of at most n operators
Streams(alphabet, n) == UNION {[1..k -> alphabet] : k \in 1..n}

Max(a, b) == IF a >= b THEN a ELSE b

(***************************************************************************)
(* Dead-code elimination (wasm-ir/src/passes/dead_code_elimination.rs)     *)
(***************************************************************************)
DceOps ==
  {Op("Block", 0), Op("Loop", 0), Op("If", 0), Op("Else", 0), Op("End", 0),
   Op("Br", 0), Op("Return", 0), Op("Nop", 0)}

\* drop_unreachable that never lets an Else end the dead region
dce_drop_unreachable_no_else(nu, op) ==
  CASE op.op \in {"Block", "Loop", "If"} -> nu + 1
    [] op.op = "End" -> nu - 1
    [] OTHER -> nu

\* DeadCodeElimination::drop_unreachable: nested_unreachable after the call
dce_drop_unreachable(nu, op) ==
  IF op.op \in {"Block", "Loop", "If"} THEN nu + 1
  ELSE IF op.op = "Else" /\ nu = 1 THEN nu - 1
  ELSE IF op.op = "End" THEN nu - 1
  ELSE nu

\* DeadCodeElimination::maybe_end_of_block: nested_unreachable after the call
maybe_end_of_block_no_return(nu, op) ==
  IF op.op \in {"Unreachable", "Br", "BrTable"} THEN nu + 1 ELSE nu

maybe_end_of_block(nu, op) ==
  IF op.op \in {"Unreachable", "Br", "BrTable", "Return"} THEN nu + 1 ELSE nu

is_reachable(nu) == nu = 0

\* One iteration of the loop of run_tracking: the counter after the
\* operator and whether the operator is pushed to `remaining`.
dce_step_stale(nu, op) ==
  IF is_reachable(nu)
  THEN [nu |-> maybe_end_of_block(nu, op), keep |-> TRUE]
  ELSE [nu |-> dce_drop_unreachable(nu, op), keep |-> is_reachable(nu)]

dce_step(nu, op) ==
  IF is_reachable(nu)
  THEN [nu |-> maybe_end_of_block(nu, op), keep |-> TRUE]
  ELSE LET n2 == dce_drop_unreachable(nu, op)
       IN  [nu |-> n2, keep |-> is_reachable(n2)]

\* DeadCodeElimination::run_tracking from operator k on, with the counter
\* at nu and `remaining` holding acc
RECURSIVE run_tracking(_, _, _, _)
run_tracking(list, k, nu, acc) ==
  IF k > Len(list) THEN acc
  ELSE LET s == dce_step(nu, list[k])
       IN  run_tracking(list, k + 1, s.nu,
                        IF s.keep THEN Append(acc, list[k]) ELSE acc)

\* DeadCodeElimination::run: a default handler, then run_tracking
dce_run(list) == run_tracking(list, 1, 0, <<>>)

\* the caller applies DeadCodeElimination::run to the operator stream
DceRun ==
  /\ dce_pc = "input"
  /\ dce_once' = dce_run(dce_list)
  /\ dce_pc' = "once"
  /\ UNCHANGED <<dce_list, dce_twice>>

\* ... and applies it again to the list the first run returned
DceRunAgain ==
  /\ dce_pc = "once"
  /\ dce_twice' = dce_run(dce_once)
  /\ dce_pc' = "twice"
  /\ UNCHANGED <<dce_list, dce_once>>

(***************************************************************************)
(* The emitter of br_table (codegen/luau/src/backend/statement.rs).        *)
(* A written line is its text with the number it interpolates; the table   *)
(* constructor line carries the list of its entries.  Indentation is left  *)
(* out.                                                                    *)
(***************************************************************************)
Line(text, n) == [text |-> text, n |-> n, list |-> <<>>]

\* node.rs Align, as get_br_alignment builds it: `length` slots moved from
\* `old` to `new`
Align(new, old, length) == [new |-> new, old |-> old, length |-> length]
is_aligned(al) == al.length = 0 \/ al.new = al.old

Br(target, align) == [target |-> target, align |-> align]

Last(seq) == seq[Len(seq)]

\* Br::write with the relative depth written where the level belongs
BrWriteDepthAsLevel(br, label_list) ==
  (IF ~is_aligned(br.align)
   THEN <<[text |-> "reg[new..] = reg[old..]", n |-> br.align.length,
           list |-> <<br.align.new, br.align.old>>]>>
   ELSE <<>>)
  \o
  (IF br.target = 0
   THEN IF label_list # <<>> /\ Last(label_list) = "Backward"
        THEN <<Line("continue", 0)>>
        ELSE <<Line("break", 0)>>
   ELSE <<Line("desired = {level}", br.target), Line("break", 0)>>)

\* impl Driver for Br, with mng.label_list() = label_list
BrWrite(br, label_list) ==
  (IF ~is_aligned(br.align)
   THEN <<[text |-> "reg[new..] = reg[old..]", n |-> br.align.length,
           list |-> <<br.align.new, br.align.old>>]>>
   ELSE <<>>)
  \o
  (IF br.target = 0
   THEN IF label_list # <<>> /\ Last(label_list) = "Backward"
        THEN <<Line("continue", 0)>>
        ELSE <<Line("break", 0)>>
   ELSE <<Line("desired = {level}", Len(label_list) - 1 - br.target),
          Line("break", 0)>>)

\* slice::sort_by_key(|v| v.target()): a stable sort; x goes behind every
\* element whose key is not greater
RECURSIVE InsertByTarget(_, _)
InsertByTarget(sorted, x) ==
  IF sorted = <<>> THEN <<x>>
  ELSE IF Last(sorted).target <= x.target THEN Append(sorted, x)
  ELSE Append(InsertByTarget(SubSeq(sorted, 1, Len(sorted) - 1), x),
              Last(sorted))

RECURSIVE sort_by_target(_)
sort_by_target(data) ==
  IF data = <<>> THEN <<>>
  ELSE InsertByTarget(sort_by_target(SubSeq(data, 1, Len(data) - 1)),
                      Last(data))

\* Vec::dedup_by_key(|v| v.target()): of each run of consecutive elements
\* with the same key the first stays
RECURSIVE dedup_by_target(_)
dedup_by_target(data) ==
  IF Len(data) <= 1 THEN data
  ELSE LET front == dedup_by_target(SubSeq(data, 1, Len(data) - 1))
       IN  IF Last(front).target = Last(data).target THEN front
           ELSE Append(front, Last(data))

to_ordered_table_no_dedup(list, default) ==
  sort_by_target(Append(list, default))

to_ordered_table(list, default) ==
  dedup_by_target(sort_by_target(Append(list, default)))

\* write_search_layer over list[lo+1 .. hi] (the range lo..hi of the code)
RECURSIVE write_search_layer(_, _, _, _)
write_search_layer(lo, hi, list, label_list) ==
  IF hi - lo = 1 THEN BrWrite(list[lo + 1], label_list)
  ELSE
    LET center == lo + ((hi - lo) \div 2)
        br == list[center + 1]
    IN  (IF lo # center
         THEN <<Line("if temp < {} then", br.target)>>
              \o write_search_layer(lo, center, list, label_list)
         ELSE <<>>)
        \o
        (IF hi # center + 1
         THEN <<Line(IF lo # center THEN "elseif temp > {} then"
                                    ELSE "if temp > {} then", br.target)>>
              \o write_search_layer(center + 1, hi, list, label_list)
         ELSE <<>>)
        \o <<Line("else", 0)>>
        \o BrWrite(br, label_list)
        \o <<Line("end", 0)>>

\* write_table_setup with a table { t0, t1, ... } that counts from 1
write_table_setup_from_one(table, id) ==
  << Line("if not br_map[{id}] then", id),
     [text |-> "br_map[{id}] = (function() return { [0] = ... } end)()",
      n |-> id,
      list |-> <<table.default.target>>
               \o [i \in 1..Len(table.data) |-> table.data[i].target]],
     Line("end", 0),
     Line("temp = br_map[{id}][cond] or {}", table.default.target) >>

\* write_table_setup: the lazily built br_map[id] = { [0] = t0, t1, ... }
\* and the lookup temp = br_map[id][cond] or default
write_table_setup(table, id) ==
  << Line("if not br_map[{id}] then", id),
     [text |-> "br_map[{id}] = (function() return { [0] = ... } end)()",
      n |-> id,
      list |-> [i \in 1..Len(table.data) |-> table.data[i].target]],
     Line("end", 0),
     Line("temp = br_map[{id}][cond] or {}", table.default.target) >>

\* BrTable::write without the shortcut for an empty target list
BrTableWriteAlways(table, id, label_list) ==
  LET list == to_ordered_table(table.data, table.default)
  IN  write_table_setup(table, id)
      \o write_search_layer(0, Len(list), list, label_list)

\* impl Driver for BrTable
BrTableWrite(table, id, label_list) ==
  IF table.data = <<>> THEN BrWrite(table.default, label_list)
  ELSE LET list == to_ordered_table(table.data, table.default)
       IN  write_table_setup(table, id)
           \o write_search_layer(0, Len(list), list, label_list)

\* a br_table whose default may have to move one slot, and the label
\* stacks it is written under: one labelled block for every depth a target
\* can name, the innermost opened by Block or by Loop
Targets == 0..MaxTarget
NoAlign == Align(0, 0, 0)
MoveOne == Align(0, 1, 1)
TableInputs ==
  {[data |-> [i \in DOMAIN ts |-> Br(ts[i], NoAlign)],
    default |-> Br(d, al)] :
     ts \in UNION {[1..k -> Targets] : k \in 0..MaxTableLen}, d \in Targets,
     al \in {NoAlign, MoveOne}}
TableLabels == [i \in 1..(MaxTarget + 1) |-> "Forward"]
TableLabelStacks ==
  {TableLabels, [TableLabels EXCEPT ![MaxTarget + 1] = "Backward"]}

\* the emitter writes one BrTable terminator
TableWrite ==
  /\ bt_pc = "input"
  /\ bt_list' = IF bt_table.data = <<>> THEN <<>>
                ELSE to_ordered_table(bt_table.data, bt_table.default)
  /\ bt_out' = BrTableWrite(bt_table, 0, bt_labels)
  /\ bt_pc' = "written"
  /\ UNCHANGED <<bt_table, bt_labels>>

(***************************************************************************)
(* Validated function bodies.  The annotation passes and the lifter get    *)
(* the operators of a function body that wasmparser has validated: blocks  *)
(* are balanced, an Else belongs to an If, every operator finds its        *)
(* operands in its own block, and the body ends with the End that closes   *)
(* the function.  The operators are read one at a time; a frame is an open *)
(* block with the height of its operand stack, as the validator keeps it.  *)
(* All blocks here have the empty block type.                              *)
(***************************************************************************)
Frame(kind, h) == [kind |-> kind, h |-> h]

\* the operands an operator pops and pushes
Pops(op) ==
  CASE op.op \in {"LocalSet", "GlobalSet", "LocalTee", "If", "Drop"} -> 1
    [] OTHER -> 0
Pushes(op) ==
  CASE op.op \in {"LocalGet", "GlobalGet", "LocalTee", "I32Const"} -> 1
    [] OTHER -> 0

ValidOp(frames, op) ==
  LET top == Last(frames)
  IN  /\ top.h >= Pops(op)
      /\ op.op = "Else" => top.kind = "If" /\ top.h = 0
      /\ op.op = "End" => top.h = 0

Advance(frames, op) ==
  LET n == Len(frames)
      h2 == frames[n].h - Pops(op) + Pushes(op)
      below == [frames EXCEPT ![n].h = h2]
  IN  CASE op.op \in {"Block", "Loop", "If"} -> Append(below, Frame(op.op, 0))
        [] op.op = "Else" -> [frames EXCEPT ![n].kind = "Else"]
        [] op.op = "End" -> SubSeq(frames, 1, n - 1)
        [] OTHER -> below

\* the least number of operators that still have to follow: one for every
\* operand left in a frame and the End of every frame
RECURSIVE MinClose(_)
MinClose(frames) ==
  IF frames = <<>> THEN 0
  ELSE Last(frames).h + 1 + MinClose(SubSeq(frames, 1, Len(frames) - 1))

NoFrames == <<>>
FuncFrames == <<Frame("Func", 0)>>

\* operator op can follow `code` in a validated body of at most n operators
CanRead(code, frames, op, n) ==
  /\ frames # NoFrames
  /\ ValidOp(frames, op)
  /\ Len(code) + 1 + MinClose(Advance(frames, op)) <= n

(***************************************************************************)
(* Read/write annotation (wasm-ir/src/passes/read_write_annotation.rs).    *)
(* The key of operator code[i] of the list is its offset i - 1, as         *)
(* enumerate() counts it.                                                  *)
(***************************************************************************)
Local(i) == [ns |-> "Local", id |-> i]
Global(i) == [ns |-> "Global", id |-> i]

Label(r, w) == [read_set |-> r, write_set |-> w]
DefaultLabel == Label({}, {})

\* the key usize::MAX of the last label: no operator has it
SentinelKey == -1

\* linear_merge that keeps in read_set what other writes
linear_merge_no_kill(self, other) ==
  Label(self.read_set \cup other.read_set,
        self.write_set \cup other.write_set)

\* linear_merge that also takes out of read_set what self writes
linear_merge_drop_written(self, other) ==
  Label((self.read_set \ (self.write_set \cup other.write_set))
          \cup other.read_set,
        self.write_set \cup other.write_set)

linear_merge(self, other) ==
  Label((self.read_set \ other.write_set) \cup other.read_set,
        self.write_set \cup other.write_set)

branch_merge_write_union(self, other) ==
  Label(self.read_set \cup other.read_set,
        self.write_set \cup other.write_set)

branch_merge(self, other) ==
  Label(self.read_set \cup other.read_set,
        self.write_set \cap other.write_set)

\* label_scratch after clear() and track_operation(inst)
track_operation(inst) ==
  CASE inst.op = "LocalGet" -> Label({Local(inst.a)}, {})
    [] inst.op = "LocalSet" -> Label({}, {Local(inst.a)})
    [] inst.op = "LocalTee" -> Label({Local(inst.a)}, {Local(inst.a)})
    [] inst.op = "GlobalGet" -> Label({Global(inst.a)}, {})
    [] inst.op = "GlobalSet" -> Label({}, {Global(inst.a)})
    [] OTHER -> DefaultLabel

Pop(seq) == SubSeq(seq, 1, Len(seq) - 1)

\* HashMap::insert
MapInsert(map, key, value) ==
  [k \in DOMAIN map \cup {key} |-> IF k = key THEN value ELSE map[k]]

RwPanic(h) == [h EXCEPT !.panic = TRUE]

\* ReadWriteAnnotation::handle_block
rw_handle_block(h, key) ==
  IF h.pending_stack = <<>> \/ h.branch_stack = <<>> THEN RwPanic(h)
  ELSE [h EXCEPT !.pending_stack = Pop(@),
                 !.branch_stack = Pop(@),
                 !.result_map = MapInsert(@, key, Last(h.pending_stack))]

\* ReadWriteAnnotation::handle_if
rw_handle_if(h, key) ==
  IF h.pending_stack = <<>> \/ h.branch_stack = <<>> THEN RwPanic(h)
  ELSE IF Last(h.branch_stack)
  THEN IF Len(h.pending_stack) < 2 THEN RwPanic(h)
       ELSE LET popped == Last(h.pending_stack)
                other == h.pending_stack[Len(h.pending_stack) - 1]
            IN  [h EXCEPT !.pending_stack = Pop(Pop(@)),
                          !.branch_stack = Pop(@),
                          !.result_map =
                             MapInsert(@, key, branch_merge(popped, other))]
  ELSE [h EXCEPT !.pending_stack = Pop(@),
                 !.branch_stack = Pop(@),
                 !.result_map = MapInsert(@, key, Last(h.pending_stack))]

\* ReadWriteAnnotation::handle_else
rw_handle_else(h) ==
  IF h.branch_stack = <<>> THEN RwPanic(h)
  ELSE [h EXCEPT !.pending_stack = Append(@, DefaultLabel),
                 !.branch_stack = Append(Pop(@), TRUE)]

\* ReadWriteAnnotation::handle_end
rw_handle_end(h) ==
  [h EXCEPT !.branch_stack = Append(@, FALSE),
            !.pending_stack = Append(@, DefaultLabel)]

\* one iteration of the loop of add_label_data: handle_boundary, and for
\* an operator that is no boundary track_operation and the linear merge
\* into the last pending label
rw_step(h, key, inst) ==
  CASE inst.op \in {"Block", "Loop"} -> rw_handle_block(h, key)
    [] inst.op = "If" -> rw_handle_if(h, key)
    [] inst.op = "Else" -> rw_handle_else(h)
    [] inst.op = "End" -> rw_handle_end(h)
    [] OTHER ->
         IF h.pending_stack = <<>> THEN RwPanic(h)
         ELSE [h EXCEPT !.pending_stack[Len(h.pending_stack)] =
                           linear_merge(@, track_operation(inst))]

\* add_label_data: the operators in reverse, from operator i down; the
\* key of code[i] is its offset i - 1
RECURSIVE add_label_data(_, _, _)
add_label_data(h, code, i) ==
  IF i = 0 \/ h.panic THEN h
  ELSE add_label_data(rw_step(h, i - 1, code[i]), code, i - 1)

\* add_last_label
add_last_label(h) ==
  IF h.panic THEN h
  ELSE IF h.pending_stack = <<>> THEN RwPanic(h)
  ELSE [h EXCEPT !.pending_stack = Pop(@),
                 !.result_map = MapInsert(@, SentinelKey, Last(h.pending_stack))]

\* ReadWriteAnnotation::run on a pass whose result_map is empty
rw_run(code) ==
  add_last_label(
    add_label_data([branch_stack |-> <<>>, pending_stack |-> <<>>,
                    result_map |-> <<>>, panic |-> FALSE],
                   code, Len(code)))

RwOps ==
  {Op("LocalGet", 0), Op("LocalSet", 0), Op("LocalTee", 0),
   Op("GlobalGet", 0), Op("GlobalSet", 0),
   Op("Block", 0), Op("Loop", 0), Op("If", 0), Op("Else", 0), Op("End", 0)}

\* the next operator of the function body is read
RwRead(op) ==
  /\ rw_pc = "input"
  /\ CanRead(rw_code, rw_frames, op, MaxRwLen)
  /\ rw_code' = Append(rw_code, op)
  /\ rw_frames' = Advance(rw_frames, op)
  /\ UNCHANGED <<rw_pc, branch_stack, pending_stack, rw_result_map>>

\* the caller runs the pass on the operators of the function body
RwRun ==
  /\ rw_pc = "input"
  /\ rw_frames = NoFrames
  /\ LET h == rw_run(rw_code)
     IN  /\ rw_pc' = IF h.panic THEN "panic" ELSE "done"
         /\ branch_stack' = h.branch_stack
         /\ pending_stack' = h.pending_stack
         /\ rw_result_map' = h.result_map
  /\ UNCHANGED <<rw_code, rw_frames>>

(***************************************************************************)
(* ReadWriteLabel::linear_merge, called on its own                         *)
(***************************************************************************)
\* the labels over two locals and a global
MergeVarSet == {Local(0), Local(1), Global(0)}
MergeLabels == {Label(r, w) : r \in SUBSET MergeVarSet, w \in SUBSET MergeVarSet}

\* self.linear_merge(&other)
LinearMerge ==
  /\ mg_pc = "input"
  /\ mg_out' = linear_merge(mg_self, mg_other)
  /\ mg_pc' = "merged"
  /\ UNCHANGED <<mg_self, mg_other>>

(***************************************************************************)
(* Boundary tracking (wasm-ir/src/passes/boundary_tracking.rs)             *)
(***************************************************************************)
\* BoundaryType
BoundaryLoop(start_) == [boundary |-> "Loop", start |-> <<start_>>]
BoundaryElse == [boundary |-> "Else", start |-> <<>>]

\* one iteration of run_tracking, on the Else of a pass that marks the
\* outermost pending block
bnd_step_marks_outermost(h, i, inst) ==
  IF h.panic THEN h
  ELSE CASE inst.op \in {"Block", "If"} ->
              [h EXCEPT !.pending_stack = Append(@, <<>>)]
         [] inst.op = "Loop" ->
              [h EXCEPT !.pending_stack = Append(@, <<BoundaryLoop(i)>>)]
         [] inst.op = "Else" ->
              IF h.pending_stack = <<>> THEN [h EXCEPT !.panic = TRUE]
              ELSE [h EXCEPT !.pending_stack[1] = <<BoundaryElse>>]
         [] inst.op = "End" ->
              IF h.pending_stack = <<>> THEN [h EXCEPT !.panic = TRUE]
              ELSE LET boundary == Last(h.pending_stack)
                   IN  [h EXCEPT
                          !.pending_stack = Pop(@),
                          !.result_map = IF boundary = <<>> THEN @
                                         ELSE MapInsert(@, i, boundary[1])]
         [] OTHER -> h

\* one iteration of run_tracking: operator inst at offset i; unwrap of
\* None is a panic
bnd_step(h, i, inst) ==
  IF h.panic THEN h
  ELSE CASE inst.op \in {"Block", "If"} ->
              [h EXCEPT !.pending_stack = Append(@, <<>>)]
         [] inst.op = "Loop" ->
              [h EXCEPT !.pending_stack = Append(@, <<BoundaryLoop(i)>>)]
         [] inst.op = "Else" ->
              IF h.pending_stack = <<>> THEN [h EXCEPT !.panic = TRUE]
              ELSE [h EXCEPT !.pending_stack[Len(h.pending_stack)] =
                               <<BoundaryElse>>]
         [] inst.op = "End" ->
              IF h.pending_stack = <<>> THEN [h EXCEPT !.panic = TRUE]
              ELSE LET boundary == Last(h.pending_stack)
                   IN  [h EXCEPT
                          !.pending_stack = Pop(@),
                          !.result_map = IF boundary = <<>> THEN @
                                         ELSE MapInsert(@, i, boundary[1])]
         [] OTHER -> h

\* BoundaryTracking::run_tracking from operator k on; offsets start at 0
RECURSIVE bnd_run_tracking(_, _, _)
bnd_run_tracking(h, code, k) ==
  IF k > Len(code) THEN h
  ELSE bnd_run_tracking(bnd_step(h, k - 1, code[k]), code, k + 1)

\* BoundaryTracking::run on a pass whose result_map is empty
bnd_run(code) ==
  bnd_run_tracking([pending_stack |-> <<>>, result_map |-> <<>>,
                    panic |-> FALSE], code, 1)

BoundaryOps ==
  {Op("Block", 0), Op("Loop", 0), Op("If", 0), Op("Else", 0), Op("End", 0),
   Op("Nop", 0)}

\* the caller runs the pass on a list of operators
BoundaryRun ==
  /\ bd_pc = "input"
  /\ LET h == bnd_run(bd_code)
     IN  /\ bd_pc' = IF h.panic THEN "panic" ELSE "done"
         /\ bd_pending' = h.pending_stack
         /\ bd_map' = h.result_map
  /\ UNCHANGED bd_code

(***************************************************************************)
(* Demand annotation (wasm-ir/src/passes/demand_annotation.rs)             *)
(***************************************************************************)
DmPanic(h) == [h EXCEPT !.panic = TRUE]

\* ReadWriteLabel::read_extend
read_extend(self, other) ==
  Label(self.read_set \cup other, self.write_set)

\* fill_indices: every key of label_map with an empty set
fill_indices(label_map) == [k \in DOMAIN label_map |-> {}]

\* patch_result
patch_result(h, key) ==
  [h EXCEPT !.result_map = MapInsert(@, key, h.label_scratch.read_set)]

\* DemandAnnotation::handle_block: label_map[&key] of a key the map does
\* not hold is a panic
dm_handle_block(h, key, label_map) ==
  IF key \notin DOMAIN label_map THEN DmPanic(h)
  ELSE patch_result(
         [h EXCEPT !.label_scratch = linear_merge(@, label_map[key])], key)

\* DemandAnnotation::handle_if
dm_handle_if(h, key, label_map) ==
  IF key \notin DOMAIN label_map THEN DmPanic(h)
  ELSE patch_result(
         [h EXCEPT !.label_scratch = linear_merge(@, label_map[key])], key)

\* DemandAnnotation::handle_loop
dm_handle_loop(h, key, label_map) ==
  IF key \notin DOMAIN label_map THEN DmPanic(h)
  ELSE patch_result(
         [h EXCEPT !.label_scratch = read_extend(@, label_map[key].read_set)],
         key)

\* handle_else that takes the oldest label of the stack
dm_handle_else_oldest(h, key) ==
  IF h.label_stack = <<>> THEN DmPanic(h)
  ELSE [h EXCEPT !.label_scratch = h.label_stack[1],
                 !.label_stack = Tail(@),
                 !.pushed_at = Tail(@),
                 !.popped = @ \cup {[else |-> key,
                                     end |-> h.pushed_at[1],
                                     label |-> h.label_stack[1]]}]

\* DemandAnnotation::handle_else, for the Else at offset key; popped holds
\* which End pushed the label that is popped
dm_handle_else(h, key) ==
  IF h.label_stack = <<>> THEN DmPanic(h)
  ELSE [h EXCEPT !.label_scratch = Last(h.label_stack),
                 !.label_stack = Pop(@),
                 !.pushed_at = Pop(@),
                 !.popped = @ \cup {[else |-> key,
                                     end |-> Last(h.pushed_at),
                                     label |-> Last(h.label_stack)]}]

\* DemandAnnotation::handle_end, for the End at offset key
dm_handle_end(h, key, boundary_map, label_map) ==
  LET seen == [h EXCEPT !.at_end = MapInsert(@, key, h.label_scratch)]
  IN  IF key \notin DOMAIN boundary_map THEN seen
      ELSE IF boundary_map[key].boundary = "Loop"
      THEN LET start_ == boundary_map[key].start[1]
           IN  IF start_ \notin DOMAIN label_map THEN DmPanic(seen)
               ELSE [seen EXCEPT !.label_scratch =
                                    read_extend(@, label_map[start_].read_set)]
      ELSE [seen EXCEPT !.label_stack = Append(@, h.label_scratch),
                        !.pushed_at = Append(@, key)]

\* one iteration of the loop of run_tracking
dm_step(h, key, inst, boundary_map, label_map) ==
  CASE inst.op = "Block" -> dm_handle_block(h, key, label_map)
    [] inst.op = "Loop" -> dm_handle_loop(h, key, label_map)
    [] inst.op = "If" -> dm_handle_if(h, key, label_map)
    [] inst.op = "Else" -> dm_handle_else(h, key)
    [] inst.op = "End" -> dm_handle_end(h, key, boundary_map, label_map)
    [] OTHER -> h

\* DemandAnnotation::run_tracking: the operators in reverse, from operator
\* i down; the key of code[i] is its offset i - 1
RECURSIVE dm_run_tracking(_, _, _, _, _)
dm_run_tracking(h, code, i, boundary_map, label_map) ==
  IF i = 0 \/ h.panic THEN h
  ELSE dm_run_tracking(dm_step(h, i - 1, code[i], boundary_map, label_map),
                       code, i - 1, boundary_map, label_map)

\* DemandAnnotation::run on a pass whose result_map is empty
dm_run(code, boundary_map, label_map) ==
  LET h == dm_run_tracking(
             [label_scratch |-> DefaultLabel, label_stack |-> <<>>,
              result_map |-> fill_indices(label_map), panic |-> FALSE,
              pushed_at |-> <<>>, popped |-> {}, at_end |-> <<>>],
             code, Len(code), boundary_map, label_map)
  IN  IF h.panic THEN h ELSE dm_handle_block(h, SentinelKey, label_map)

\* the operators of function bodies the three passes are run on
PassOps ==
  {Op("LocalGet", 0), Op("LocalSet", 0), Op("GlobalGet", 0),
   Op("Block", 0), Op("Loop", 0), Op("If", 0), Op("Else", 0), Op("End", 0)}

\* the next operator of the function body is read
PassRead(op, limit) ==
  /\ rw_pc = "input"
  /\ CanRead(rw_code, rw_frames, op, limit)
  /\ rw_code' = Append(rw_code, op)
  /\ rw_frames' = Advance(rw_frames, op)
  /\ UNCHANGED <<rw_pc, branch_stack, pending_stack, rw_result_map>>

\* the operators in front of the End that closes the function
Front(code) == SubSeq(code, 1, Len(code) - 1)

\* the caller runs boundary tracking, on the whole body or on the
\* operators in front of the End that closes the function
PassBoundary(whole) ==
  /\ rw_frames = NoFrames /\ rw_code # <<>>
  /\ bd_pc = "idle"
  /\ bd_code' = IF whole THEN rw_code ELSE Front(rw_code)
  /\ LET h == bnd_run(bd_code')
     IN  /\ bd_pc' = IF h.panic THEN "panic" ELSE "done"
         /\ bd_pending' = h.pending_stack
         /\ bd_map' = h.result_map

\* the caller runs demand annotation on the body, with the maps the two
\* other passes have returned
DemandRun ==
  /\ dm_pc = "idle"
  /\ bd_pc = "done" /\ rw_pc = "done"
  /\ LET h == dm_run(rw_code, bd_map, rw_result_map)
     IN  /\ dm_pc' = IF h.panic THEN "panic" ELSE "done"
         /\ label_scratch' = h.label_scratch
         /\ label_stack' = h.label_stack
         /\ dm_result_map' = h.result_map
         /\ dm_popped' = h.popped
         /\ dm_at_end' = h.at_end

(***************************************************************************)
(* The region graph (ir/src/data_flow) and mark-and-sweep                  *)
(* (ir/src/transform/mark_and_sweep.rs).  A NodeId is the number of the    *)
(* key: a SlotMap never hands out the same key twice.                      *)
(***************************************************************************)
Region(s, e) == [start |-> s, end |-> e]
Node(kind, rs) == [kind |-> kind, regions |-> rs]
Edge(node, s, e) == [node |-> node, start |-> s, end |-> e]

SimpleKinds == {"RegionStart", "RegionEnd"}
RegionKinds == {"Theta", "Lambda", "Phi"}

\* Node::as_regions: the regions of a compound node; a simple node has
\* none, which marks nothing either
as_regions(node) == IF node.kind \in SimpleKinds THEN <<>> ELSE node.regions

Keys == 1..(next_key - 1)

\* SlotMap::insert and SecondaryMap::insert of add_node
NodesWith(ns, id, node) == [k \in DOMAIN ns \cup {id} |-> IF k = id THEN node ELSE ns[k]]

\* the nodes and the connections added so far
GraphSize == (next_key - 1) + connections

\* no run has been started on the graph as it is now
NoBefore == [start |-> {}, nodes |-> <<>>, incoming |-> <<>>]

GraphIdle == ms_pc \in {"idle", "swept"}

\* Graph::add_region
AddRegion ==
  /\ GraphIdle /\ GraphSize + 2 <= MaxGraphSize
  /\ nodes' = NodesWith(NodesWith(nodes, next_key, Node("RegionStart", <<>>)),
                        next_key + 1, Node("RegionEnd", <<>>))
  /\ incoming' = NodesWith(NodesWith(incoming, next_key, <<>>),
                           next_key + 1, <<>>)
  /\ regions' = regions \cup {Region(next_key, next_key + 1)}
  /\ next_key' = next_key + 2
  /\ ms_pc' = "idle"
  /\ ms_before' = NoBefore /\ ms_again' = FALSE
  /\ UNCHANGED <<start, connections, nodes_visited, nodes_pending,
                 debug_assertions, connected>>

\* Graph::add_compound::<T> for T = Theta, Lambda, Phi
AddCompound(kind) ==
  /\ GraphIdle /\ GraphSize + 3 <= MaxGraphSize
  /\ LET region == Region(next_key, next_key + 1)
     IN  /\ nodes' =
              NodesWith(
                NodesWith(NodesWith(nodes, next_key, Node("RegionStart", <<>>)),
                          next_key + 1, Node("RegionEnd", <<>>)),
                next_key + 2, Node(kind, <<region>>))
         /\ regions' = regions \cup {region}
  /\ incoming' = NodesWith(NodesWith(NodesWith(incoming, next_key, <<>>),
                                     next_key + 1, <<>>),
                           next_key + 2, <<>>)
  /\ next_key' = next_key + 3
  /\ ms_pc' = "idle"
  /\ ms_before' = NoBefore /\ ms_again' = FALSE
  /\ UNCHANGED <<start, connections, nodes_visited, nodes_pending,
                 debug_assertions, connected>>

\* Graph::add_gamma with regions the graph has handed out
AddGamma(rs) ==
  /\ GraphIdle /\ GraphSize + 1 <= MaxGraphSize
  /\ nodes' = NodesWith(nodes, next_key, Node("Gamma", rs))
  /\ incoming' = NodesWith(incoming, next_key, <<>>)
  /\ next_key' = next_key + 1
  /\ ms_pc' = "idle"
  /\ ms_before' = NoBefore /\ ms_again' = FALSE
  /\ UNCHANGED <<start, regions, connections, nodes_visited, nodes_pending,
                 debug_assertions, connected>>

\* Edge::ports().len()
PortsLen(edge) == IF edge.end + 1 >= edge.start THEN edge.end + 1 - edge.start ELSE 0

\* Graph::add_connection; indexing `incoming` with a key it does not hold
\* is a panic; debug_assert_eq! checks its operands only in a build with
\* debug assertions, and its failure is a panic that pushes nothing
AddConnection(from, to) ==
  /\ GraphIdle /\ GraphSize + 1 <= MaxGraphSize
  /\ to.node \in DOMAIN incoming
  /\ IF debug_assertions /\ PortsLen(from) # PortsLen(to)
     THEN /\ ms_pc' = "panic"
          /\ UNCHANGED <<incoming, connections, connected, ms_before,
                         ms_again>>
     ELSE /\ incoming' = [incoming EXCEPT ![to.node] = Append(@, from)]
          /\ connections' = connections + 1
          /\ connected' = connected \cup {<<from, to>>}
          /\ ms_pc' = "idle"
          /\ ms_before' = NoBefore /\ ms_again' = FALSE
  /\ UNCHANGED <<start, nodes, next_key, regions, nodes_visited,
                 nodes_pending, debug_assertions>>

\* the builder of the graph sets Graph.start, once
SetStart(id) ==
  /\ GraphIdle
  /\ start = {}
  /\ start' = {id}
  /\ ms_pc' = "idle"
  /\ ms_before' = NoBefore /\ ms_again' = FALSE
  /\ UNCHANGED <<nodes, incoming, next_key, regions, connections,
                 nodes_visited, nodes_pending, debug_assertions, connected>>

\* mark_node_at that pushes a node it has visited before
mark_node_at_again(ms, id) ==
  [visited |-> ms.visited \cup {id}, pending |-> Append(ms.pending, id)]

\* MarkAndSweep::mark_node_at
mark_node_at(ms, id) ==
  IF id \in ms.visited THEN ms
  ELSE [visited |-> ms.visited \cup {id}, pending |-> Append(ms.pending, id)]

RECURSIVE MarkEach(_, _)
MarkEach(ms, ids) ==
  IF ids = <<>> THEN ms
  ELSE MarkEach(mark_node_at(ms, Head(ids)), Tail(ids))

\* the nodes mark_edges_at marks, in its order: start and end of every
\* region, then the source of every incoming edge
RECURSIVE RegionEnds(_)
RegionEnds(rs) ==
  IF rs = <<>> THEN <<>>
  ELSE <<Head(rs).start, Head(rs).end>> \o RegionEnds(Tail(rs))

\* mark_edges_at without the loop over graph.incoming[id]
EdgesAtNoIncoming(ns, inc, id) == RegionEnds(as_regions(ns[id]))

EdgesAtNoRegions(ns, inc, id) == [i \in DOMAIN inc[id] |-> inc[id][i].node]

EdgesAt(ns, inc, id) ==
  RegionEnds(as_regions(ns[id])) \o [i \in DOMAIN inc[id] |-> inc[id][i].node]

\* MarkAndSweep::mark_edges_at
mark_edges_at(ms, ns, inc, id) == MarkEach(ms, EdgesAt(ns, inc, id))

\* MarkAndSweep::run up to the loop of mark: the visited set is cleared and
\* the start node, if there is one, is marked
RunStart ==
  /\ GraphIdle
  /\ ms_before' = [start |-> start, nodes |-> nodes, incoming |-> incoming]
  /\ ms_again' = (ms_pc = "swept")
  /\ LET ms == IF start = {} THEN [visited |-> {}, pending |-> nodes_pending]
               ELSE mark_node_at([visited |-> {}, pending |-> nodes_pending],
                                 CHOOSE id \in start : TRUE)
     IN  /\ nodes_visited' = ms.visited
         /\ nodes_pending' = ms.pending
  /\ ms_pc' = "mark"
  /\ UNCHANGED <<start, nodes, incoming, next_key, regions, connections,
                 debug_assertions, connected>>

\* one iteration of the loop of mark; graph.nodes[id] and
\* graph.incoming[id] panic for a key the maps do not hold
MarkStep ==
  /\ ms_pc = "mark" /\ nodes_pending # <<>>
  /\ LET id == Last(nodes_pending)
         ms == [visited |-> nodes_visited, pending |-> Pop(nodes_pending)]
     IN  IF id \in DOMAIN nodes /\ id \in DOMAIN incoming
         THEN LET ms2 == mark_edges_at(ms, nodes, incoming, id)
              IN  /\ nodes_visited' = ms2.visited
                  /\ nodes_pending' = ms2.pending
                  /\ ms_pc' = "mark"
         ELSE /\ nodes_visited' = ms.visited
              /\ nodes_pending' = ms.pending
              /\ ms_pc' = "panic"
  /\ UNCHANGED <<start, nodes, incoming, next_key, regions, connections,
                 ms_before, ms_again, debug_assertions, connected>>

\* SlotMap::retain / SecondaryMap::retain
RetainOthers(map, keep) == [k \in DOMAIN map \ keep |-> map[k]]

Retain(map, keep) == [k \in DOMAIN map \cap keep |-> map[k]]

\* MarkAndSweep::sweep, when mark has returned
Sweep ==
  /\ ms_pc = "mark" /\ nodes_pending = <<>>
  /\ nodes' = Retain(nodes, nodes_visited)
  /\ incoming' = Retain(incoming, nodes_visited)
  /\ connected' = {c \in connected : c[2].node \in nodes_visited}
  /\ ms_pc' = "swept"
  /\ UNCHANGED <<start, next_key, regions, connections, nodes_visited,
                 nodes_pending, ms_before, ms_again, debug_assertions>>

\* the edges the model connects: Edge::at(node), port 0 on both sides
EdgesAtPort0(ids) == {Edge(id, 0, 0) : id \in ids}

\* Edge::at(node) and Edge::at_range(node, 0, 1): one port and two
EdgesAtRange(ids) == {Edge(id, 0, e) : id \in ids, e \in {0, 1}}

\* the region lists handed to add_gamma
GammaRegions == UNION {[1..k -> regions] : k \in 0..2}

(***************************************************************************)
(* The stack-to-tree lifter (wasm-ast/src/factory.rs).                     *)
(*                                                                         *)
(* Expressions, statements and terminators are records tagged with the     *)
(* name of the node.  The operand stack (Stack, ReadGet) and the nodes     *)
(* are used by the lifter but defined outside the files at hand; they      *)
(* follow the description of the lifter in the specification.              *)
(***************************************************************************)
Value == [e |-> "Value"]
GetLocal(var) == [e |-> "GetLocal", var |-> var]
GetGlobal(var) == [e |-> "GetGlobal", var |-> var]
GetTemporary(var) == [e |-> "GetTemporary", var |-> var]
LoadAt(memory, pointer) == [e |-> "LoadAt", memory |-> memory, pointer |-> pointer]
MemorySize(memory) == [e |-> "MemorySize", memory |-> memory]
BinOp(lhs, rhs) == [e |-> "BinOp", lhs |-> lhs, rhs |-> rhs]

SetTemporary(var, value) == [s |-> "SetTemporary", var |-> var, value |-> value]
SetLocal(var, value) == [s |-> "SetLocal", var |-> var, value |-> value]
SetGlobal(var, value) == [s |-> "SetGlobal", var |-> var, value |-> value]
StoreAt(memory, pointer, value) ==
  [s |-> "StoreAt", memory |-> memory, pointer |-> pointer, value |-> value]
MemoryGrow(memory, result, size) ==
  [s |-> "MemoryGrow", memory |-> memory, result |-> result, size |-> size]
ResultList(start_, end_) == [start |-> start_, end |-> end_]
Call(function, param_list, result_list) ==
  [s |-> "Call", function |-> function, param_list |-> param_list,
   result_list |-> result_list]
CallIndirect(table, index, param_list, result_list) ==
  [s |-> "CallIndirect", table |-> table, index |-> index,
   param_list |-> param_list, result_list |-> result_list]
BrIf(condition, target) == [s |-> "BrIf", condition |-> condition, target |-> target]

\* Option<Box<_>> is the empty sequence or a sequence of one
None == <<>>
Some(x) == <<x>>

\* the type oracle: the block types and the one function type of the model
BlockTypeEmpty == 0
BlockTypeValue == 1
BlockTypeFunc == 2

\* TypeInfo::by_block_type: <<num_param, num_result>>
by_block_type(ty) ==
  CASE ty = BlockTypeEmpty -> <<0, 0>>
    [] ty = BlockTypeValue -> <<0, 1>>
    [] ty = BlockTypeFunc -> <<1, 1>>

\* TypeInfo::by_func_index: the functions of the module take one parameter
\* and give one result
by_func_index(function) == <<1, 1>>

\* TypeInfo::by_type_index: so do the function types of the type section
by_type_index(ty) == <<1, 1>>

\* ReadGet::run: does the expression hold a GetLocal, GetGlobal or LoadAt
\* that the closures accept; a closure is the set of indices it accepts
RECURSIVE ReadGet(_, _, _, _)
ReadGet(node, has_local, has_global, has_memory) ==
  CASE node.e = "GetLocal" -> node.var \in has_local
    [] node.e = "GetGlobal" -> node.var \in has_global
    [] node.e = "LoadAt" ->
         \/ node.memory \in has_memory
         \/ ReadGet(node.pointer, has_local, has_global, has_memory)
    [] node.e = "BinOp" ->
         \/ ReadGet(node.lhs, has_local, has_global, has_memory)
         \/ ReadGet(node.rhs, has_local, has_global, has_memory)
    [] OTHER -> FALSE

\* the indices of the module: every closure |_| true accepts these
AllIndices == {0, 1}

\* the predicates handed to Stack::leak_into
PredAll == [all |-> TRUE, local |-> {}, global |-> {}, memory |-> {}]
PredRead(l, g, m) == [all |-> FALSE, local |-> l, global |-> g, memory |-> m]
Holds(pred, node) ==
  pred.all \/ ReadGet(node, pred.local, pred.global, pred.memory)

\* Stack
Stack(var_list, capacity, previous) ==
  [var_list |-> var_list, capacity |-> capacity, previous |-> previous]
StackDefault == Stack(<<>>, 0, 0)

StackLen(st) == Len(st.var_list)
StackPush(st, data) == [st EXCEPT !.var_list = Append(@, data)]
StackTop(st) == Last(st.var_list)
StackPop(st) == [st EXCEPT !.var_list = Pop(@)]

\* Stack::pop_len: the values taken, bottom first, and the stack left
PopLenTaken(st, n) == SubSeq(st.var_list, StackLen(st) - n + 1, StackLen(st))
PopLenLeft(st, n) == [st EXCEPT !.var_list = SubSeq(@, 1, StackLen(st) - n)]

\* Stack::push_temporaries
push_temporaries_start(st) == st.previous + StackLen(st)
push_temporaries(st, n) ==
  LET start_ == push_temporaries_start(st)
  IN  [st EXCEPT !.capacity = Max(@, start_ + n),
                 !.var_list = @ \o [i \in 1..n |-> GetTemporary(start_ + i - 1)]]

\* Stack::split_last: the stack of the child block
split_last(st, num_param, num_result) ==
  LET desired == StackLen(st) - num_param
  IN  Stack(PopLenTaken(st, num_param),
            Max(st.capacity, st.previous + desired + num_result),
            st.previous + desired)

\* Stack::get_br_alignment
get_br_alignment(st, par_previous, par_result) ==
  Align(par_previous, StackLen(st) + st.previous - par_result, par_result)

\* Expression::is_temporary
is_temporary(node, id) == node.e = "GetTemporary" /\ node.var = id

\* Stack::leak_into from slot i on: every value the predicate accepts, and
\* that is not already the temporary of its slot, is assigned to the
\* temporary of its slot; the result is the stack and the code
RECURSIVE leak_from(_, _, _, _)
leak_from(st, code, pred, i) ==
  IF i > StackLen(st) THEN [stack |-> st, code |-> code]
  ELSE LET var == st.previous + i - 1
           old == st.var_list[i]
       IN  IF is_temporary(old, var) \/ ~Holds(pred, old)
           THEN leak_from(st, code, pred, i + 1)
           ELSE leak_from([st EXCEPT !.var_list[i] = GetTemporary(var),
                                     !.capacity = Max(@, var + 1)],
                          Append(code, SetTemporary(var, old)), pred, i + 1)

\* BlockData: the variant with its count (num_result, or num_param of a
\* Backward block) and, for an If, its block type
BlockData(variant, num, ty) == [variant |-> variant, num |-> num, ty |-> ty]

\* a conversion that makes every label Forward
LabelTypeForward(data) == "Forward"

\* impl From<BlockData> for LabelType
LabelTypeOf(data) == IF data.variant = "Backward" THEN "Backward" ELSE "Forward"

\* StatList::default
StatListDefault ==
  [stack |-> StackDefault, code |-> <<>>, last |-> None,
   block_data |-> BlockData("Forward", 0, BlockTypeEmpty),
   has_reference |-> FALSE]

LeakInto(sl, pred) ==
  LET r == leak_from(sl.stack, sl.code, pred, 1)
  IN  [sl EXCEPT !.stack = r.stack, !.code = r.code]

leak_all(sl) == LeakInto(sl, PredAll)
leak_pre_call_globals_only(sl) == LeakInto(sl, PredRead({}, AllIndices, {}))
leak_pre_call(sl) == LeakInto(sl, PredRead({}, AllIndices, AllIndices))
leak_local_write(sl, id) == LeakInto(sl, PredRead({id}, {}, {}))
leak_global_write(sl, id) == LeakInto(sl, PredRead({}, {id}, {}))
leak_memory_write(sl, id) == LeakInto(sl, PredRead({}, {}, {id}))

PushCode(sl, stat) == [sl EXCEPT !.code = Append(@, stat)]

\* StatList::push_load
push_load(sl, memory) ==
  [sl EXCEPT !.stack = StackPush(StackPop(@), LoadAt(memory, StackTop(sl.stack)))]

\* StatList::add_store
add_store(sl, memory) ==
  LET value == StackTop(sl.stack)
      pointer == StackTop(StackPop(sl.stack))
      popped == [sl EXCEPT !.stack = StackPop(StackPop(@))]
  IN  PushCode(leak_memory_write(popped, memory), StoreAt(memory, pointer, value))

\* StatList::push_constant
push_constant(sl) == [sl EXCEPT !.stack = StackPush(@, Value)]

\* StatList::push_bin_op
push_bin_op(sl) ==
  LET rhs == StackTop(sl.stack)
      lhs == StackTop(StackPop(sl.stack))
  IN  [sl EXCEPT !.stack = StackPush(StackPop(StackPop(@)), BinOp(lhs, rhs))]

\* StatList::set_terminator
set_terminator(sl, term) == [leak_all(sl) EXCEPT !.last = Some(term)]

\* impl From<StatList> for Block
BlockOf(stat) ==
  [s |-> "Block",
   label_type |-> IF stat.has_reference THEN LabelTypeOf(stat.block_data)
                  ELSE "None",
   code |-> stat.code, last |-> stat.last]

IfOf(condition, on_true) ==
  [s |-> "If", condition |-> condition, on_true |-> on_true, on_false |-> None]

\* Factory: pending, target, nested_unreachable, and whether it has panicked
Factory(pending_, target, nested_unreachable) ==
  [pending |-> pending_, target |-> target,
   nested_unreachable |-> nested_unreachable, panicked |-> FALSE]

\* Factory::from_type_info followed by the first two lines of
\* build_stat_list, for a function with num_result results
FactoryFor(num_result) ==
  Factory(<<>>,
          [StatListDefault EXCEPT
             !.block_data = BlockData("Forward", num_result, BlockTypeEmpty)],
          0)

\* Factory::start_block
start_block(f, ty, variant) ==
  LET num_param == by_block_type(ty)[1]
      num_result == by_block_type(ty)[2]
      leaked == leak_all(f.target)
      old == IF variant = "Else"
             THEN [leaked EXCEPT
                     !.stack = push_temporaries(PopLenLeft(@, num_result), num_param)]
             ELSE leaked
      data == CASE variant = "Forward" -> BlockData(variant, num_result, BlockTypeEmpty)
                [] variant = "Backward" -> BlockData(variant, num_param, BlockTypeEmpty)
                [] variant = "If" -> BlockData(variant, num_result, ty)
                [] variant = "Else" -> BlockData(variant, num_result, BlockTypeEmpty)
      child == [StatListDefault EXCEPT
                  !.block_data = data,
                  !.stack = split_last(old.stack, num_param, num_result)]
      parent == [old EXCEPT
                   !.stack = push_temporaries(PopLenLeft(@, num_param), num_result)]
  IN  [f EXCEPT !.target = child, !.pending = Append(@, parent)]

\* Factory::end_block without line 302
end_block_keep_capacity(f) ==
  LET now == f.target
      old == Last(f.pending)
      variant == now.block_data.variant
  IN  CASE variant \in {"Forward", "Backward"} ->
             [f EXCEPT !.target = PushCode(old, BlockOf(now)), !.pending = Pop(@)]
        [] variant = "If" ->
             [f EXCEPT !.target =
                         PushCode([old EXCEPT !.stack = StackPop(@)],
                                  IfOf(StackTop(old.stack), BlockOf(now))),
                       !.pending = Pop(@)]
        [] variant = "Else" ->
             IF old.code = <<>> \/ Last(old.code).s # "If"
             THEN [f EXCEPT !.panicked = TRUE]
             ELSE [f EXCEPT !.target =
                              [old EXCEPT !.code[Len(old.code)].on_false =
                                            Some(BlockOf(now))],
                            !.pending = Pop(@)]

\* Factory::end_block
end_block(f) ==
  LET now == f.target
      old == [Last(f.pending) EXCEPT !.stack.capacity = now.stack.capacity]
      variant == now.block_data.variant
  IN  CASE variant \in {"Forward", "Backward"} ->
             [f EXCEPT !.target = PushCode(old, BlockOf(now)), !.pending = Pop(@)]
        [] variant = "If" ->
             [f EXCEPT !.target =
                         PushCode([old EXCEPT !.stack = StackPop(@)],
                                  IfOf(StackTop(old.stack), BlockOf(now))),
                       !.pending = Pop(@)]
        [] variant = "Else" ->
             IF old.code = <<>> \/ Last(old.code).s # "If"
             THEN [f EXCEPT !.panicked = TRUE]
             ELSE [f EXCEPT !.target =
                              [old EXCEPT !.code[Len(old.code)].on_false =
                                            Some(BlockOf(now))],
                            !.pending = Pop(@)]

\* Factory::start_else
start_else(f) ==
  LET ty == f.target.block_data.ty
      ended == end_block([f EXCEPT !.target = leak_all(@)])
  IN  IF f.target.block_data.variant # "If" \/ ended.panicked
      THEN [f EXCEPT !.panicked = TRUE]
      ELSE start_block(ended, ty, "Else")

\* Factory::get_relative_block: 0 is the target, index > 0 a pending block
RelativeBlock(f, index) ==
  IF index = 0 THEN f.target ELSE f.pending[Len(f.pending) - index + 1]

SetReferenceTarget(f, index) == [f EXCEPT !.target.has_reference = TRUE]

SetReference(f, index) ==
  IF index = 0 THEN [f EXCEPT !.target.has_reference = TRUE]
  ELSE [f EXCEPT !.pending[Len(f.pending) - index + 1].has_reference = TRUE]

\* Factory::get_br_terminator: the Br, and the factory with the block marked
BrTerminator(f, target) ==
  LET block == RelativeBlock(f, target)
  IN  Br(target, get_br_alignment(f.target.stack, block.stack.previous,
                                  block.block_data.num))

get_br_terminator_no_reference(f, target) == f

get_br_terminator(f, target) == SetReference(f, target)

\* Factory::add_call
add_call(f, function) ==
  LET num_param == by_func_index(function)[1]
      num_result == by_func_index(function)[2]
      param_list == PopLenTaken(f.target.stack, num_param)
      leaked == leak_pre_call([f.target EXCEPT !.stack = PopLenLeft(@, num_param)])
      start_ == push_temporaries_start(leaked.stack)
      pushed == [leaked EXCEPT !.stack = push_temporaries(@, num_result)]
  IN  [f EXCEPT !.target =
         PushCode(pushed, Call(function, param_list,
                               ResultList(start_, start_ + num_result)))]

\* Factory::add_call_indirect
add_call_indirect(f, ty, table) ==
  LET num_param == by_type_index(ty)[1]
      num_result == by_type_index(ty)[2]
      index == StackTop(f.target.stack)
      popped == StackPop(f.target.stack)
      param_list == PopLenTaken(popped, num_param)
      leaked == leak_pre_call([f.target EXCEPT !.stack = PopLenLeft(popped, num_param)])
      start_ == push_temporaries_start(leaked.stack)
      pushed == [leaked EXCEPT !.stack = push_temporaries(@, num_result)]
  IN  [f EXCEPT !.target =
         PushCode(pushed, CallIndirect(table, index, param_list,
                                       ResultList(start_, start_ + num_result)))]

\* the Brs of a br_table, made one after the other
RECURSIVE BrTerminators(_, _)
BrTerminators(f, ts) ==
  IF ts = <<>> THEN <<>>
  ELSE <<BrTerminator(f, Head(ts))>> \o BrTerminators(f, Tail(ts))

RECURSIVE get_br_terminators(_, _)
get_br_terminators(f, ts) ==
  IF ts = <<>> THEN f
  ELSE get_br_terminators(get_br_terminator(f, Head(ts)), Tail(ts))

BrTable(condition, data, default) ==
  [t |-> "BrTable", condition |-> condition, data |-> data, default |-> default]
TermBr(br) == [t |-> "Br", br |-> br]
TermUnreachable == [t |-> "Unreachable"]

Terminate(f, term) ==
  [f EXCEPT !.target = set_terminator(@, term),
            !.nested_unreachable = @ + 1]

\* Factory::add_instruction
add_instruction(f, op) ==
  LET top == StackTop(f.target.stack)
      popped == [f EXCEPT !.target.stack = StackPop(@)]
  IN
  CASE op.op = "I32Add" -> [f EXCEPT !.target = push_bin_op(@)]
    [] op.op = "Unreachable" -> Terminate(f, TermUnreachable)
    [] op.op = "Nop" -> f
    [] op.op = "Block" -> start_block(f, op.a, "Forward")
    [] op.op = "Loop" -> start_block(f, op.a, "Backward")
    [] op.op = "If" ->
         LET started == start_block(popped, op.a, "If")
         IN  [started EXCEPT !.pending[Len(started.pending)].stack =
                               StackPush(@, top)]
    [] op.op = "Else" -> start_else(f)
    [] op.op = "End" -> end_block([f EXCEPT !.target = leak_all(@)])
    [] op.op = "Br" ->
         Terminate(get_br_terminator(f, op.a), TermBr(BrTerminator(f, op.a)))
    [] op.op = "BrIf" ->
         LET marked == get_br_terminator(popped, op.a)
             data == BrIf(top, BrTerminator(popped, op.a))
         IN  [marked EXCEPT !.target = PushCode(leak_all(@), data)]
    [] op.op = "BrTable" ->
         LET marked == get_br_terminator(get_br_terminators(popped, op.ts), op.a)
         IN  Terminate(marked,
                       BrTable(top, BrTerminators(popped, op.ts),
                               BrTerminator(popped, op.a)))
    [] op.op = "Return" ->
         Terminate(get_br_terminator(f, Len(f.pending)),
                   TermBr(BrTerminator(f, Len(f.pending))))
    [] op.op = "Call" -> add_call(f, op.a)
    [] op.op = "CallIndirect" -> add_call_indirect(f, op.a, 0)
    [] op.op = "Drop" -> popped
    [] op.op = "LocalGet" ->
         [f EXCEPT !.target.stack = StackPush(@, GetLocal(op.a))]
    [] op.op = "LocalSet" ->
         [f EXCEPT !.target =
            PushCode(leak_local_write(popped.target, op.a), SetLocal(op.a, top))]
    [] op.op = "LocalTee" ->
         LET leaked == leak_local_write(popped.target, op.a)
         IN  [f EXCEPT !.target =
                PushCode([leaked EXCEPT !.stack = StackPush(@, GetLocal(op.a))],
                         SetLocal(op.a, top))]
    [] op.op = "GlobalGet" ->
         [f EXCEPT !.target.stack = StackPush(@, GetGlobal(op.a))]
    [] op.op = "GlobalSet" ->
         [f EXCEPT !.target =
            PushCode(leak_global_write(popped.target, op.a), SetGlobal(op.a, top))]
    [] op.op = "I32Load" -> [f EXCEPT !.target = push_load(@, op.a)]
    [] op.op = "I32Store" -> [f EXCEPT !.target = add_store(@, op.a)]
    [] op.op = "MemorySize" ->
         [f EXCEPT !.target.stack = StackPush(@, MemorySize(op.a))]
    [] op.op = "MemoryGrow" ->
         LET result == push_temporaries_start(popped.target.stack)
             pushed == [popped.target EXCEPT !.stack = push_temporaries(@, 1)]
         IN  [f EXCEPT !.target =
                PushCode(leak_memory_write(pushed, op.a),
                         MemoryGrow(op.a, result, top))]
    [] op.op = "I32Const" -> [f EXCEPT !.target = push_constant(@)]

\* Factory::drop_unreachable
drop_unreachable_no_opener(f, op) ==
  CASE op.op = "Else" /\ f.nested_unreachable = 1 ->
         start_else([f EXCEPT !.nested_unreachable = @ - 1])
    [] op.op = "End" /\ f.nested_unreachable = 1 ->
         end_block([f EXCEPT !.nested_unreachable = @ - 1])
    [] op.op = "End" -> [f EXCEPT !.nested_unreachable = @ - 1]
    [] OTHER -> f

drop_unreachable(f, op) ==
  CASE op.op \in {"Block", "Loop", "If"} ->
         [f EXCEPT !.nested_unreachable = @ + 1]
    [] op.op = "Else" /\ f.nested_unreachable = 1 ->
         start_else([f EXCEPT !.nested_unreachable = @ - 1])
    [] op.op = "End" /\ f.nested_unreachable = 1 ->
         end_block([f EXCEPT !.nested_unreachable = @ - 1])
    [] op.op = "End" -> [f EXCEPT !.nested_unreachable = @ - 1]
    [] OTHER -> f

\* one turn of the loop of build_stat_list
build_step(f, op) ==
  IF f.nested_unreachable = 0 THEN add_instruction(f, op)
  ELSE drop_unreachable(f, op)

\* the end of build_stat_list: the stat list it returns
build_end(f) ==
  IF f.nested_unreachable = 0 THEN leak_all(f.target) ELSE f.target

\* FuncData of create_indexed
FuncData(num_result, data) ==
  [num_result |-> num_result, num_stack |-> data.stack.capacity,
   code |-> BlockOf(data)]

\* The operators come from a validated function body (read_checked in
\* create_indexed).  lift_ctrl is the validator's control stack: the
\* function and every open block, with the kind and the block type.
Ctrl(kind, ty) == [kind |-> kind, ty |-> ty]

\* the values a branch to the frame carries
LabelArity(frame) ==
  IF frame.kind = "Loop" THEN by_block_type(frame.ty)[1]
  ELSE by_block_type(frame.ty)[2]

CtrlAt(ctrl, depth) == ctrl[Len(ctrl) - depth]

\* the values the operator takes from the operand stack of its block
Needs(ctrl, op) ==
  CASE op.op \in {"I32Add", "I32Store"} -> 2
    [] op.op \in {"Drop", "LocalSet", "LocalTee", "GlobalSet", "I32Load",
                  "MemoryGrow"} -> 1
    [] op.op = "Call" -> by_func_index(op.a)[1]
    [] op.op = "CallIndirect" -> by_type_index(op.a)[1] + 1
    [] op.op \in {"Block", "Loop"} -> by_block_type(op.a)[1]
    [] op.op = "If" -> by_block_type(op.a)[1] + 1
    [] op.op = "Br" -> LabelArity(CtrlAt(ctrl, op.a))
    [] op.op \in {"BrIf", "BrTable"} -> LabelArity(CtrlAt(ctrl, op.a)) + 1
    [] op.op = "Return" -> LabelArity(ctrl[1])
    [] OTHER -> 0

\* the labels of the operator exist, and those of a br_table agree
LabelsOk(ctrl, op) ==
  CASE op.op \in {"Br", "BrIf"} -> op.a < Len(ctrl)
    [] op.op = "BrTable" ->
         /\ op.a < Len(ctrl)
         /\ \A i \in DOMAIN op.ts :
              /\ op.ts[i] < Len(ctrl)
              /\ LabelArity(CtrlAt(ctrl, op.ts[i])) = LabelArity(CtrlAt(ctrl, op.a))
    [] OTHER -> TRUE

\* Else and End close the block on top of the control stack; an If
\* without Else gives back what it took
ClosesOk(ctrl, op) ==
  CASE op.op = "Else" -> Last(ctrl).kind = "If"
    [] op.op = "End" ->
         /\ Len(ctrl) > 1
         /\ Last(ctrl).kind = "If" =>
              by_block_type(Last(ctrl).ty)[1] = by_block_type(Last(ctrl).ty)[2]
    [] OTHER -> TRUE

\* operators that leave no value behind can follow a terminator anywhere
PushesNothing(op) ==
  op.op \in {"Unreachable", "Nop", "Block", "Loop", "If", "Else", "End", "Br",
             "BrIf", "BrTable", "Return", "Drop", "LocalSet", "GlobalSet",
             "I32Store"}

LiftValid(f, ctrl, op) ==
  /\ LabelsOk(ctrl, op)
  /\ ClosesOk(ctrl, op)
  /\ IF f.nested_unreachable = 0
     THEN IF op.op \in {"Else", "End"}
          THEN StackLen(f.target.stack) = by_block_type(Last(ctrl).ty)[2]
          ELSE StackLen(f.target.stack) >= Needs(ctrl, op)
     ELSE PushesNothing(op)

CtrlAfter(ctrl, op) ==
  CASE op.op = "Block" -> Append(ctrl, Ctrl("Block", op.a))
    [] op.op = "Loop" -> Append(ctrl, Ctrl("Loop", op.a))
    [] op.op = "If" -> Append(ctrl, Ctrl("If", op.a))
    [] op.op = "Else" -> Append(Pop(ctrl), Ctrl("Else", Last(ctrl).ty))
    [] op.op = "End" -> Pop(ctrl)
    [] OTHER -> ctrl

\* what the statement added for the operator writes, and how many values
\* the operator itself has put on the stack by then
Written(what, id, pushed) == [what |-> what, id |-> id, pushed |-> pushed]
NothingWritten == Written("none", 0, 0)

WrittenBy(op) ==
  CASE op.op = "LocalSet" -> Written("local", op.a, 0)
    [] op.op = "LocalTee" -> Written("local", op.a, 1)
    [] op.op = "GlobalSet" -> Written("global", op.a, 0)
    [] op.op = "I32Store" -> Written("memory", op.a, 0)
    [] op.op = "MemoryGrow" -> Written("memory", op.a, 1)
    [] op.op = "Call" -> Written("call", op.a, by_func_index(op.a)[2])
    [] op.op = "CallIndirect" -> Written("call", op.a, by_type_index(op.a)[2])
    [] OTHER -> NothingWritten

NoFuncData == [num_result |-> 0, num_stack |-> 0, code |-> BlockOf(StatListDefault)]

\* build_stat_list reads one operator that is not the last of the body
LiftRead(op, limit) ==
  /\ lift_pc = "read"
  /\ lift_count + 1 < limit
  /\ LiftValid(factory, lift_ctrl, op)
  /\ LET f == build_step(factory, op)
     IN  /\ factory' = f
         /\ lift_pc' = IF f.panicked THEN "panic" ELSE "read"
  /\ lift_ctrl' = CtrlAfter(lift_ctrl, op)
  /\ lift_count' = lift_count + 1
  /\ lift_written' = IF factory.nested_unreachable = 0 THEN WrittenBy(op)
                     ELSE NothingWritten
  /\ UNCHANGED <<func_data, lift_brs, lift_out>>

\* the last operator is the End of the function: build_stat_list returns
\* and create_indexed makes the FuncData
LiftFinish ==
  /\ lift_pc = "read"
  /\ Len(lift_ctrl) = 1
  /\ factory.nested_unreachable = 0 =>
       StackLen(factory.target.stack) = by_block_type(lift_ctrl[1].ty)[2]
  /\ func_data' = FuncData(by_block_type(lift_ctrl[1].ty)[2], build_end(factory))
  /\ factory' = [factory EXCEPT !.target = StatListDefault]
  /\ lift_pc' = "done"
  /\ lift_ctrl' = <<>>
  /\ lift_count' = lift_count + 1
  /\ lift_written' = NothingWritten
  /\ UNCHANGED <<lift_brs, lift_out>>

\* The emitter on a lifted function (statement.rs): FuncData::write writes
\* the code through the Block driver.  What is kept of it is every Br it
\* writes together with mng.label_list() at that moment.
BrSite(br, label_list) == [target |-> br.target, labels |-> label_list]

RECURSIVE BlockBrs(_, _)
RECURSIVE StatementBrs(_, _)

\* impl Driver for Terminator and for BrTable: the entries and the default
TerminatorBrs(last, label_list) ==
  IF last = None THEN {}
  ELSE LET term == last[1]
       IN  CASE term.t = "Br" -> {BrSite(term.br, label_list)}
             [] term.t = "BrTable" ->
                  {BrSite(term.data[i], label_list) : i \in DOMAIN term.data}
                  \cup {BrSite(term.default, label_list)}
             [] OTHER -> {}

\* impl Driver for Block: push_label, the code, the terminator, pop_label
BlockBrs(block, label_list) ==
  LET pushed == Append(label_list, block.label_type)
  IN  UNION {StatementBrs(block.code[i], pushed) : i \in DOMAIN block.code}
      \cup TerminatorBrs(block.last, pushed)

\* impl Driver for Statement, If and BrIf
StatementBrs(stat, label_list) ==
  CASE stat.s = "Block" -> BlockBrs(stat, label_list)
    [] stat.s = "If" ->
         BlockBrs(stat.on_true, label_list)
         \cup (IF stat.on_false = None THEN {}
               ELSE BlockBrs(stat.on_false[1], label_list))
    [] stat.s = "BrIf" -> {BrSite(stat.target, label_list)}
    [] OTHER -> {}

\* Manager::has_branch: the function has a branch
has_branch(fd) == BlockBrs(fd.code, <<>>) # {}

\* write_br_parent whose level is the length of the label list
write_br_parent_level_len(label_list, has_br) ==
  IF ~has_br \/ \A i \in DOMAIN label_list : label_list[i] = "None" THEN <<>>
  ELSE <<Line("if desired then", 0)>>
       \o (IF Last(label_list) # "None"
           THEN <<Line("if desired == {level} then", Len(label_list)),
                  Line("desired = nil", 0)>>
                \o (IF Last(label_list) = "Backward"
                    THEN <<Line("continue", 0)>> ELSE <<>>)
                \o <<Line("end", 0)>>
           ELSE <<>>)
       \o <<Line("break", 0), Line("end", 0)>>

\* write_br_parent, with mng.label_list() = label_list
write_br_parent(label_list, has_br) ==
  IF ~has_br \/ \A i \in DOMAIN label_list : label_list[i] = "None" THEN <<>>
  ELSE <<Line("if desired then", 0)>>
       \o (IF Last(label_list) # "None"
           THEN <<Line("if desired == {level} then", Len(label_list) - 1),
                  Line("desired = nil", 0)>>
                \o (IF Last(label_list) = "Backward"
                    THEN <<Line("continue", 0)>> ELSE <<>>)
                \o <<Line("end", 0)>>
           ELSE <<>>)
       \o <<Line("break", 0), Line("end", 0)>>

\* impl Driver for Terminator, and the break Block::write puts for None
TerminatorWrite(last, label_list) ==
  IF last = None THEN <<Line("break", 0)>>
  ELSE LET term == last[1]
       IN  CASE term.t = "Br" -> BrWrite(term.br, label_list)
             [] term.t = "BrTable" -> BrTableWrite(term, 0, label_list)
             [] OTHER -> <<Line("error(\"out of code bounds\")", 0)>>

RECURSIVE BlockWrite(_, _, _)
RECURSIVE CodeWrite(_, _, _, _)
RECURSIVE StatementWrite(_, _, _)

\* impl Driver for Block
BlockWrite(block, label_list, has_br) ==
  LET pushed == Append(label_list, block.label_type)
  IN  <<Line("while true do", 0)>>
      \o CodeWrite(block.code, 1, pushed, has_br)
      \o TerminatorWrite(block.last, pushed)
      \o <<Line("end", 0)>>
      \o write_br_parent(label_list, has_br)

\* self.code().iter().try_for_each(|s| s.write(mng, w)), from statement i
CodeWrite(code, i, label_list, has_br) ==
  IF i > Len(code) THEN <<>>
  ELSE StatementWrite(code[i], label_list, has_br)
       \o CodeWrite(code, i + 1, label_list, has_br)

\* impl Driver for Statement, If and BrIf; a statement that holds no block
\* and no branch is one line
StatementWrite(stat, label_list, has_br) ==
  CASE stat.s = "Block" -> BlockWrite(stat, label_list, has_br)
    [] stat.s = "If" ->
         <<Line("if {cond} then", 0)>>
         \o BlockWrite(stat.on_true, label_list, has_br)
         \o (IF stat.on_false = None THEN <<>>
             ELSE <<Line("else", 0)>>
                  \o BlockWrite(stat.on_false[1], label_list, has_br))
         \o <<Line("end", 0)>>
    [] stat.s = "BrIf" ->
         <<Line("if {cond} then", 0)>>
         \o BrWrite(stat.target, label_list)
         \o <<Line("end", 0)>>
    [] OTHER -> <<Line(stat.s, 0)>>

\* impl Driver for FuncData: the parameters, the temporaries, desired and
\* br_map if the function needs them, the code, the results
FuncDataWrite(fd) ==
  LET body == BlockWrite(fd.code, <<>>, has_branch(fd))
      has_table == \E i \in DOMAIN body : body[i].text = "if not br_map[{id}] then"
  IN  <<Line("function(...)", 0), Line("local reg_{i}", fd.num_stack)>>
      \o (IF has_branch(fd) THEN <<Line("local desired", 0)>> ELSE <<>>)
      \o (IF has_table THEN <<Line("local br_map = {}", 0)>> ELSE <<>>)
      \o body
      \o (IF fd.num_result # 0 THEN <<Line("return reg_0, ...", fd.num_result)>>
          ELSE <<>>)
      \o <<Line("end", 0)>>

\* impl Driver for FuncData
LiftWrite ==
  /\ lift_pc = "done"
  /\ lift_brs' = BlockBrs(func_data.code, <<>>)
  /\ lift_out' = FuncDataWrite(func_data)
  /\ lift_pc' = "written"
  /\ UNCHANGED <<factory, lift_ctrl, lift_count, lift_written, func_data>>

\* the operators of the model
Straight ==
  {Op("I32Const", 0), Op("I32Add", 0), Op("Drop", 0), Op("Call", 0),
   Op("LocalGet", 0), Op("LocalSet", 0), Op("LocalTee", 0),
   Op("GlobalGet", 0), Op("GlobalSet", 0), Op("I32Load", 0),
   Op("I32Store", 0), Op("MemorySize", 0), Op("MemoryGrow", 0)}

BrTableOp(ts, default) == [op |-> "BrTable", a |-> default, ts |-> ts]

\* calls, the reads a call can meet on the stack, and what combines them
Calls ==
  {Op("I32Const", 0), Op("I32Add", 0), Op("LocalGet", 0), Op("GlobalGet", 0),
   Op("I32Load", 0), Op("Call", 0), Op("CallIndirect", 0)}

Structured ==
  {Op("Block", BlockTypeEmpty), Op("Block", BlockTypeValue),
   Op("Loop", BlockTypeEmpty), Op("Loop", BlockTypeFunc),
   Op("If", BlockTypeEmpty), Op("If", BlockTypeValue),
   Op("Else", 0), Op("End", 0),
   Op("Br", 0), Op("Br", 1), Op("BrIf", 0), Op("BrIf", 1),
   BrTableOp(<<0>>, 1), BrTableOp(<<1>>, 0),
   Op("Return", 0), Op("Unreachable", 0),
   Op("I32Const", 0), Op("Drop", 0)}

\* bodies with dead code: terminators, and blocks that may follow them
DeadOps ==
  {Op("Block", BlockTypeEmpty), Op("If", BlockTypeEmpty), Op("Else", 0),
   Op("End", 0), Op("Br", 0), BrTableOp(<<0>>, 0), Op("Return", 0),
   Op("Unreachable", 0), Op("I32Const", 0)}

\* one turn of the loop of build_stat_list, with what it did written down:
\* an operator read while nested_unreachable is not 0 is handled if the
\* factory changes in more than the counter
DeadRead(op) ==
  /\ LiftRead(op, MaxDeadLen)
  /\ lift_trace' =
       Append(lift_trace,
              [op |-> op,
               nu |-> factory.nested_unreachable,
               handled |->
                 \/ factory.nested_unreachable = 0
                 \/ factory' # [factory EXCEPT !.nested_unreachable =
                                               factory'.nested_unreachable]])

\* the operators build_stat_list was handed: those it has read and the End
\* of the function, which it leaves out
BodyRead == [i \in DOMAIN lift_trace |-> lift_trace[i].op] \o <<Op("End", 0)>>

\* the caller applies DeadCodeElimination::run to the body that
\* build_stat_list has been through
DeadDceRun ==
  /\ lift_pc = "done"
  /\ dce_pc = "idle"
  /\ dce_list' = BodyRead
  /\ dce_once' = dce_run(BodyRead)
  /\ dce_pc' = "once"
  /\ UNCHANGED dce_twice

(***************************************************************************)
(* Running the emitted Luau.  The lines the emitter writes are statements  *)
(* of Luau: while true do ... end with break and continue, if / elseif /   *)
(* else / end, assignments to desired and temp, and the table br_map.      *)
(***************************************************************************)
IfTexts ==
  {"if desired then", "if desired == {level} then", "if temp < {} then",
   "if temp > {} then", "if {cond} then", "if not br_map[{id}] then"}
ClauseTexts == {"elseif temp > {} then", "else"}
OpenTexts == IfTexts \cup {"while true do", "function(...)"}

\* how many statements are open in front of line i
DepthAt(code, i) ==
  Cardinality({j \in 1..(i - 1) : code[j].text \in OpenTexts})
  - Cardinality({j \in 1..(i - 1) : code[j].text = "end"})

\* the end of the statement opened at line i
EndOfLine(code, i) ==
  LET ends == {k \in (i + 1)..Len(code) :
                 code[k].text = "end" /\ DepthAt(code, k) = DepthAt(code, i) + 1}
  IN  CHOOSE k \in ends : \A other \in ends : k <= other

\* the statements open around line pc, and the loops among them
OpenAround(code, pc) ==
  {i \in 1..(pc - 1) : code[i].text \in OpenTexts /\ EndOfLine(code, i) >= pc}
WhilesAround(code, pc) ==
  {i \in OpenAround(code, pc) :
     code[i].text = "while true do" /\ EndOfLine(code, i) > pc}
Innermost(lines) == CHOOSE i \in lines : \A other \in lines : other <= i

\* where break and continue go: behind the innermost loop, or to its head;
\* with no loop around, the lines run are left
AfterBreak(code, pc) ==
  IF WhilesAround(code, pc) = {} THEN Len(code) + 1
  ELSE EndOfLine(code, Innermost(WhilesAround(code, pc))) + 1
AfterContinue(code, pc) ==
  IF WhilesAround(code, pc) = {} THEN Len(code) + 1
  ELSE Innermost(WhilesAround(code, pc))

\* the elseif, else or end of the if at line i that comes after line from
NextClause(code, i, from) ==
  LET marks == {k \in (from + 1)..EndOfLine(code, i) :
                  /\ code[k].text \in ClauseTexts \cup {"end"}
                  /\ DepthAt(code, k) = DepthAt(code, i) + 1}
  IN  CHOOSE k \in marks : \A other \in marks : k <= other

\* where a test that fails at line from of the if at line i goes: into the
\* next elseif that holds, into the else, or behind the end
RECURSIVE AfterFail(_, _, _, _)
AfterFail(code, i, from, temp) ==
  LET k == NextClause(code, i, from)
  IN  IF code[k].text = "elseif temp > {} then"
      THEN IF temp # None /\ temp[1] > code[k].n THEN k + 1
           ELSE AfterFail(code, i, k, temp)
      ELSE k + 1

\* the lines still to run
Running == ex_code # <<>> /\ ex_pc \in DOMAIN ex_code

\* an if whose test is decided by the state: it holds, or it fails
Test(line) ==
  CASE line.text = "if desired then" -> ex_desired # None
    [] line.text = "if desired == {level} then" -> ex_desired = Some(line.n)
    [] line.text = "if temp < {} then" -> ex_temp # None /\ ex_temp[1] < line.n
    [] line.text = "if temp > {} then" -> ex_temp # None /\ ex_temp[1] > line.n
    [] line.text = "if not br_map[{id}] then" -> ex_map = None
    [] OTHER -> FALSE

\* br_map[0][c] or default: the table holds data[0] at [0] and the rest at
\* 1, 2, ...; a missing entry is nil
Lookup(map, c, default) ==
  IF map # None /\ c < Len(map[1]) THEN map[1][c + 1] ELSE default

\* one line is run; the condition of an if of the function and the value
\* the br_table looks up are any value
ExecStep ==
  /\ Running
  /\ LET line == ex_code[ex_pc]
         text == line.text
     IN  CASE text \in IfTexts \ {"if {cond} then"} ->
                /\ ex_pc' = IF Test(line) THEN ex_pc + 1
                            ELSE AfterFail(ex_code, ex_pc, ex_pc, ex_temp)
                /\ UNCHANGED <<ex_desired, ex_temp, ex_map, ex_cond, ex_from>>
           [] text = "if {cond} then" ->
                /\ ex_pc' \in {ex_pc + 1,
                                AfterFail(ex_code, ex_pc, ex_pc, ex_temp)}
                /\ UNCHANGED <<ex_desired, ex_temp, ex_map, ex_cond, ex_from>>
           [] text \in ClauseTexts ->
                /\ ex_pc' = EndOfLine(ex_code, Innermost(OpenAround(ex_code, ex_pc))) + 1
                /\ UNCHANGED <<ex_desired, ex_temp, ex_map, ex_cond, ex_from>>
           [] text = "end" ->
                LET opener == Innermost(OpenAround(ex_code, ex_pc))
                IN  /\ ex_pc' =
                         CASE ex_code[opener].text = "while true do" -> opener
                           [] ex_code[opener].text = "function(...)" ->
                                Len(ex_code) + 1
                           [] OTHER -> ex_pc + 1
                    /\ UNCHANGED <<ex_desired, ex_temp, ex_map, ex_cond,
                                   ex_from>>
           [] text = "break" ->
                /\ ex_pc' = AfterBreak(ex_code, ex_pc)
                /\ ex_from' = IF ex_desired = None THEN 0 ELSE ex_from
                /\ UNCHANGED <<ex_desired, ex_temp, ex_map, ex_cond>>
           [] text = "continue" ->
                /\ ex_pc' = AfterContinue(ex_code, ex_pc)
                /\ ex_from' = IF ex_desired = None THEN 0 ELSE ex_from
                /\ UNCHANGED <<ex_desired, ex_temp, ex_map, ex_cond>>
           [] text = "desired = {level}" ->
                /\ ex_desired' = Some(line.n)
                /\ ex_from' = ex_pc
                /\ ex_pc' = ex_pc + 1
                /\ UNCHANGED <<ex_temp, ex_map, ex_cond>>
           [] text \in {"desired = nil", "local desired"} ->
                /\ ex_desired' = None
                /\ ex_pc' = ex_pc + 1
                /\ UNCHANGED <<ex_temp, ex_map, ex_cond, ex_from>>
           [] text = "local br_map = {}" ->
                /\ ex_map' = None
                /\ ex_pc' = ex_pc + 1
                /\ UNCHANGED <<ex_desired, ex_temp, ex_cond, ex_from>>
           [] text = "br_map[{id}] = (function() return { [0] = ... } end)()" ->
                /\ ex_map' = Some(line.list)
                /\ ex_pc' = ex_pc + 1
                /\ UNCHANGED <<ex_desired, ex_temp, ex_cond, ex_from>>
           [] text = "temp = br_map[{id}][cond] or {}" ->
                /\ \E c \in 0..MaxTableLen :
                     /\ ex_cond' = c
                     /\ ex_temp' = Some(Lookup(ex_map, c, line.n))
                /\ ex_pc' = ex_pc + 1
                /\ UNCHANGED <<ex_desired, ex_map, ex_from>>
           [] text = "error(\"out of code bounds\")" ->
                /\ ex_pc' = 0
                /\ UNCHANGED <<ex_desired, ex_temp, ex_map, ex_cond, ex_from>>
           [] text = "return reg_0, ..." ->
                /\ ex_pc' = Len(ex_code) + 1
                /\ UNCHANGED <<ex_desired, ex_temp, ex_map, ex_cond, ex_from>>
           [] OTHER ->
                /\ ex_pc' = ex_pc + 1
                /\ UNCHANGED <<ex_desired, ex_temp, ex_map, ex_cond, ex_from>>
  /\ UNCHANGED ex_code

\* the function that has been written is called
ExecStart ==
  /\ lift_pc = "written"
  /\ ex_code = <<>>
  /\ ex_code' = lift_out
  /\ ex_pc' = 1
  /\ UNCHANGED <<ex_desired, ex_temp, ex_map, ex_cond, ex_from>>

\* the lines of the br_table that has been written are run
DispatchStart ==
  /\ bt_pc = "written"
  /\ ex_code = <<>>
  /\ ex_code' = bt_out
  /\ ex_pc' = 1
  /\ UNCHANGED <<ex_desired, ex_temp, ex_map, ex_cond, ex_from>>

\* nests of blocks and loops, with branches out of them
Nested ==
  {Op("Block", BlockTypeEmpty), Op("Loop", BlockTypeEmpty), Op("End", 0),
   Op("Br", 1), Op("Br", 2), Op("BrIf", 1), Op("I32Const", 0)}


(***************************************************************************)
(* Specifications                                                          *)
(***************************************************************************)
DceIdle ==
  /\ dce_pc = "idle"
  /\ dce_list = <<>>
  /\ dce_once = <<>>
  /\ dce_twice = <<>>

BtIdle ==
  /\ bt_pc = "idle"
  /\ bt_table = [data |-> <<>>, default |-> Br(0, NoAlign)]
  /\ bt_list = <<>>
  /\ bt_out = <<>>
  /\ bt_labels = <<>>

RwIdle ==
  /\ rw_pc = "idle"
  /\ rw_code = <<>>
  /\ rw_frames = NoFrames
  /\ branch_stack = <<>>
  /\ pending_stack = <<>>
  /\ rw_result_map = <<>>

GraphIdleInit ==
  /\ start = {} /\ nodes = <<>> /\ incoming = <<>>
  /\ next_key = 1 /\ regions = {} /\ connections = 0
  /\ debug_assertions = TRUE /\ connected = {}
  /\ ms_pc = "off" /\ nodes_visited = {} /\ nodes_pending = <<>>
  /\ ms_before = NoBefore /\ ms_again = FALSE

LiftIdle ==
  /\ factory = FactoryFor(0) /\ lift_pc = "off" /\ lift_ctrl = <<>>
  /\ lift_count = 0 /\ lift_written = NothingWritten
  /\ func_data = NoFuncData /\ lift_brs = {} /\ lift_out = <<>>

MergeIdle ==
  /\ mg_pc = "idle" /\ mg_self = DefaultLabel /\ mg_other = DefaultLabel
  /\ mg_out = DefaultLabel

BndIdle ==
  /\ bd_pc = "idle" /\ bd_code = <<>> /\ bd_pending = <<>> /\ bd_map = <<>>

DmIdle ==
  /\ dm_pc = "idle" /\ label_scratch = DefaultLabel /\ label_stack = <<>>
  /\ dm_result_map = <<>> /\ dm_popped = {} /\ dm_at_end = <<>>

TraceIdle == lift_trace = <<>>

PassIdle == MergeIdle /\ BndIdle /\ DmIdle /\ TraceIdle

ExecIdle ==
  /\ ex_pc = 0 /\ ex_code = <<>> /\ ex_desired = None /\ ex_temp = None
  /\ ex_map = None /\ ex_cond = 0 /\ ex_from = 0

DceInit ==
  /\ dce_pc = "input"
  /\ dce_list \in Streams(DceOps, MaxDceLen)
  /\ dce_once = <<>>
  /\ dce_twice = <<>>
  /\ BtIdle /\ RwIdle /\ GraphIdleInit /\ LiftIdle /\ PassIdle /\ ExecIdle

DceNext ==
  /\ DceRun \/ DceRunAgain
  /\ UNCHANGED <<btVars, rwVars, graphVars, liftVars, passVars, execVars>>

SpecDce == DceInit /\ [][DceNext]_vars

TableInit ==
  /\ bt_pc = "input"
  /\ bt_table \in TableInputs
  /\ bt_labels \in TableLabelStacks
  /\ bt_list = <<>>
  /\ bt_out = <<>>
  /\ DceIdle /\ RwIdle /\ GraphIdleInit /\ LiftIdle /\ PassIdle /\ ExecIdle

TableNext ==
  /\ TableWrite
  /\ UNCHANGED <<dceVars, rwVars, graphVars, liftVars, passVars, execVars>>

SpecTable == TableInit /\ [][TableNext]_vars

RwInit ==
  /\ rw_pc = "input"
  /\ rw_code = <<>>
  /\ rw_frames = FuncFrames
  /\ branch_stack = <<>>
  /\ pending_stack = <<>>
  /\ rw_result_map = <<>>
  /\ DceIdle /\ BtIdle /\ GraphIdleInit /\ LiftIdle /\ PassIdle /\ ExecIdle

RwNext ==
  /\ \/ \E op \in RwOps : RwRead(op)
     \/ RwRun
  /\ UNCHANGED <<dceVars, btVars, graphVars, liftVars, passVars,
               execVars>>

SpecRw == RwInit /\ [][RwNext]_vars

MergeInit ==
  /\ mg_pc = "input"
  /\ mg_self \in MergeLabels
  /\ mg_other \in MergeLabels
  /\ mg_out = DefaultLabel
  /\ DceIdle /\ BtIdle /\ RwIdle /\ GraphIdleInit /\ LiftIdle /\ BndIdle
  /\ DmIdle /\ TraceIdle /\ ExecIdle

MergeNext ==
  /\ LinearMerge
  /\ UNCHANGED <<dceVars, btVars, rwVars, graphVars, liftVars, bndVars,
                 dmVars, traceVars, execVars>>

SpecMerge == MergeInit /\ [][MergeNext]_vars

BoundaryInit ==
  /\ bd_pc = "input"
  /\ bd_code \in Streams(BoundaryOps, MaxBoundaryLen)
  /\ bd_pending = <<>>
  /\ bd_map = <<>>
  /\ DceIdle /\ BtIdle /\ RwIdle /\ GraphIdleInit /\ LiftIdle /\ MergeIdle
  /\ DmIdle /\ TraceIdle /\ ExecIdle

BoundaryNext ==
  /\ BoundaryRun
  /\ UNCHANGED <<dceVars, btVars, rwVars, graphVars, liftVars, mergeVars,
                 dmVars, traceVars, execVars>>

SpecBoundary == BoundaryInit /\ [][BoundaryNext]_vars

\* the three passes on one function body
PassesInit ==
  /\ rw_pc = "input"
  /\ rw_code = <<>>
  /\ rw_frames = FuncFrames
  /\ branch_stack = <<>>
  /\ pending_stack = <<>>
  /\ rw_result_map = <<>>
  /\ DceIdle /\ BtIdle /\ GraphIdleInit /\ LiftIdle /\ PassIdle /\ ExecIdle

PassesNext ==
  \/ /\ \/ \E op \in PassOps : PassRead(op, MaxPassLen)
        \/ RwRun
     /\ UNCHANGED <<dceVars, btVars, graphVars, liftVars, passVars, execVars>>
  \/ /\ \E whole \in BOOLEAN : PassBoundary(whole)
     /\ UNCHANGED <<dceVars, btVars, rwVars, graphVars, liftVars, mergeVars,
                    dmVars, traceVars, execVars>>
  \/ /\ DemandRun
     /\ UNCHANGED <<dceVars, btVars, rwVars, graphVars, liftVars, mergeVars,
                    bndVars, traceVars, execVars>>

SpecPasses == PassesInit /\ [][PassesNext]_vars

\* the br_table is written, then its lines are run
DispatchNext ==
  \/ /\ TableWrite
     /\ UNCHANGED <<dceVars, rwVars, graphVars, liftVars, passVars, execVars>>
  \/ /\ DispatchStart \/ ExecStep
     /\ UNCHANGED <<dceVars, btVars, rwVars, graphVars, liftVars, passVars>>

SpecDispatch == TableInit /\ [][DispatchNext]_vars

\* Graph::default and MarkAndSweep::default
GraphInit ==
  /\ start = {} /\ nodes = <<>> /\ incoming = <<>>
  /\ next_key = 1 /\ regions = {} /\ connections = 0
  /\ debug_assertions \in BOOLEAN /\ connected = {}
  /\ ms_pc = "idle" /\ nodes_visited = {} /\ nodes_pending = <<>>
  /\ ms_before = NoBefore /\ ms_again = FALSE
  /\ DceIdle /\ BtIdle /\ RwIdle /\ LiftIdle /\ PassIdle /\ ExecIdle

GraphNext ==
  /\ \/ AddRegion
     \/ \E kind \in RegionKinds : AddCompound(kind)
     \/ \E rs \in GammaRegions : AddGamma(rs)
     \/ \E from \in EdgesAtPort0(Keys), to \in EdgesAtPort0(Keys) :
          AddConnection(from, to)
     \/ \E id \in DOMAIN nodes : SetStart(id)
     \/ RunStart
     \/ MarkStep
     \/ Sweep
  /\ UNCHANGED <<dceVars, btVars, rwVars, liftVars, passVars,
               execVars>>

SpecGraph == GraphInit /\ [][GraphNext]_vars

\* graphs of regions whose connections may be one port or two ports wide
ConnectNext ==
  /\ \/ AddRegion
     \/ \E from \in EdgesAtRange(Keys), to \in EdgesAtRange(Keys) :
          AddConnection(from, to)
     \/ \E id \in DOMAIN nodes : SetStart(id)
     \/ RunStart
     \/ MarkStep
     \/ Sweep
  /\ UNCHANGED <<dceVars, btVars, rwVars, liftVars, passVars,
               execVars>>

SpecConnect == GraphInit /\ [][ConnectNext]_vars

\* create_indexed on a function with no result or with one
LiftInit ==
  /\ \E ty \in {BlockTypeEmpty, BlockTypeValue} :
       /\ factory = FactoryFor(by_block_type(ty)[2])
       /\ lift_ctrl = <<Ctrl("Func", ty)>>
  /\ lift_pc = "read" /\ lift_count = 0
  /\ lift_written = NothingWritten /\ func_data = NoFuncData
  /\ lift_brs = {}
  /\ lift_out = <<>>
  /\ DceIdle /\ BtIdle /\ RwIdle /\ GraphIdleInit /\ PassIdle /\ ExecIdle

\* bodies without blocks: the operators that read and write locals,
\* globals and memory, and calls
SpillNext ==
  /\ \/ \E op \in Straight : LiftRead(op, MaxSpillLen)
     \/ LiftFinish
     \/ LiftWrite
  /\ UNCHANGED <<dceVars, btVars, rwVars, graphVars, passVars,
               execVars>>

SpecSpill == LiftInit /\ [][SpillNext]_vars

\* bodies of calls
CallNext ==
  /\ \/ \E op \in Calls : LiftRead(op, MaxLiftLen)
     \/ LiftFinish
     \/ LiftWrite
  /\ UNCHANGED <<dceVars, btVars, rwVars, graphVars, passVars,
               execVars>>

SpecCall == LiftInit /\ [][CallNext]_vars

\* a function of nested blocks is lifted and written, then it is called
NestedNext ==
  \/ /\ \/ \E op \in Nested : LiftRead(op, MaxNestedLen)
        \/ LiftFinish
        \/ LiftWrite
     /\ UNCHANGED <<dceVars, btVars, rwVars, graphVars, passVars, execVars>>
  \/ /\ ExecStart \/ ExecStep
     /\ UNCHANGED <<dceVars, btVars, rwVars, graphVars, liftVars, passVars>>

SpecNested == LiftInit /\ [][NestedNext]_vars

\* build_stat_list and dead-code elimination on one body
DeadNext ==
  \/ /\ \E op \in DeadOps : DeadRead(op)
     /\ UNCHANGED <<dceVars, btVars, rwVars, graphVars, mergeVars, bndVars,
                    dmVars, execVars>>
  \/ /\ LiftFinish
     /\ UNCHANGED <<dceVars, btVars, rwVars, graphVars, passVars, execVars>>
  \/ /\ DeadDceRun
     /\ UNCHANGED <<btVars, rwVars, graphVars, liftVars, passVars, execVars>>

SpecDead == LiftInit /\ [][DeadNext]_vars

\* bodies of blocks and branches
LiftNext ==
  /\ \/ \E op \in Structured : LiftRead(op, MaxLiftLen)
     \/ LiftFinish
     \/ LiftWrite
  /\ UNCHANGED <<dceVars, btVars, rwVars, graphVars, passVars,
               execVars>>

SpecLift == LiftInit /\ [][LiftNext]_vars

(***************************************************************************)
(* Claims                                                                  *)
(***************************************************************************)

\* the entries of the br_map table constructor among the written lines
TableEntries(out) == out[2].list

StrictlyAscending(seq) == \A i \in 1..(Len(seq) - 1) : seq[i] < seq[i + 1]

TableTargets(table) ==
  {table.data[i].target : i \in DOMAIN table.data} \cup {table.default.target}

\* C5 (as stated): the lookup table the emitter writes for a BrTable with a
\* non-empty target list holds exactly the distinct targets plus the
\* default, each once, strictly ascending.
C5_EmittedTableOrdered ==
  (bt_pc = "written" /\ bt_table.data # <<>>) =>
    /\ StrictlyAscending(TableEntries(bt_out))
    /\ {TableEntries(bt_out)[i] : i \in DOMAIN TableEntries(bt_out)}
         = TableTargets(bt_table)

\* C5 (amended): the ordered list the search tree is generated from holds
\* exactly the distinct targets plus the default, each once, strictly
\* ascending; the br_map table written holds the targets of the table in
\* their original order, duplicates included, and the default only appears
\* as the fallback of the lookup.
C5_SearchListOrdered ==
  (bt_pc = "written" /\ bt_table.data # <<>>) =>
    /\ StrictlyAscending([i \in DOMAIN bt_list |-> bt_list[i].target])
    /\ {bt_list[i].target : i \in DOMAIN bt_list} = TableTargets(bt_table)
    /\ TableEntries(bt_out)
         = [i \in DOMAIN bt_table.data |-> bt_table.data[i].target]
    /\ bt_out[4] = Line("temp = br_map[{id}][cond] or {}",
                        bt_table.default.target)

\* C5 witness: a table with a repeated target, written out of order, whose
\* default is not one of its targets
C5_Witness ==
  /\ bt_pc = "written"
  /\ Len(bt_table.data) = 3
  /\ bt_table.data[1].target = bt_table.data[3].target
  /\ bt_table.data[2].target < bt_table.data[1].target
  /\ bt_table.default.target \notin {bt_table.data[i].target : i \in 1..3}
  /\ Len(bt_list) = 3

\* ---- the structure of an operator list, read off the list itself ----
IsOpener(op) == op.op \in {"Block", "Loop", "If"}
IsLeaf(op) == op.op \notin {"Block", "Loop", "If", "Else", "End"}

\* blocks opened and not closed strictly between operators lo and k
RelDepth(code, lo, k) ==
  Cardinality({j \in (lo + 1)..(k - 1) : IsOpener(code[j])})
  - Cardinality({j \in (lo + 1)..(k - 1) : code[j].op = "End"})

\* the End that closes the block opened by operator i
EndOf(code, i) ==
  CHOOSE k \in (i + 1)..Len(code) :
    /\ code[k].op = "End" /\ RelDepth(code, i, k) = 0
    /\ \A j \in (i + 1)..(k - 1) :
         code[j].op = "End" => RelDepth(code, i, j) > 0

\* the Else operators of the If at i (none or one)
ElsesOf(code, i) ==
  {k \in (i + 1)..(EndOf(code, i) - 1) :
     code[k].op = "Else" /\ RelDepth(code, i, k) = 0}

\* the leaf operators strictly between lo and hi that are in no nested block
ArmLeaves(code, lo, hi) ==
  {k \in (lo + 1)..(hi - 1) : IsLeaf(code[k]) /\ RelDepth(code, lo, k) = 0}

\* variables some leaf of the arm writes, and variables whose first access
\* by a leaf of the arm is a read
ArmWrites(code, lo, hi) ==
  UNION {track_operation(code[k]).write_set : k \in ArmLeaves(code, lo, hi)}
ArmReads(code, lo, hi) ==
  {v \in UNION {track_operation(code[k]).read_set :
                  k \in ArmLeaves(code, lo, hi)} :
     \E k \in ArmLeaves(code, lo, hi) :
       /\ v \in track_operation(code[k]).read_set
       /\ \A j \in ArmLeaves(code, lo, hi) :
            j < k => v \notin track_operation(code[j]).write_set}

\* the variables the condition of the If at i reads, when the condition is
\* the local.get or global.get right before the If
CondReads(code, i) ==
  IF i > 1 /\ code[i - 1].op \in {"LocalGet", "GlobalGet"}
  THEN track_operation(code[i - 1]).read_set
  ELSE {}

IfsWithElse(code) ==
  {i \in DOMAIN code : code[i].op = "If" /\ ElsesOf(code, i) # {}}

ThenReads(code, i) == ArmReads(code, i, CHOOSE k \in ElsesOf(code, i) : TRUE)
ThenWrites(code, i) == ArmWrites(code, i, CHOOSE k \in ElsesOf(code, i) : TRUE)
ElseReads(code, i) ==
  ArmReads(code, CHOOSE k \in ElsesOf(code, i) : TRUE, EndOf(code, i))
ElseWrites(code, i) ==
  ArmWrites(code, CHOOSE k \in ElsesOf(code, i) : TRUE, EndOf(code, i))

\* C6 (as stated): for every If with both arms the label recorded at the
\* If has write_set = write_set(then) \cap write_set(else) and
\* read_set = read_set(cond) \cup read_set(then) \cup read_set(else).
C6_BranchMergeWithCond ==
  rw_pc = "done" =>
    \A i \in IfsWithElse(rw_code) :
      /\ i - 1 \in DOMAIN rw_result_map
      /\ rw_result_map[i - 1].write_set
           = ThenWrites(rw_code, i) \cap ElseWrites(rw_code, i)
      /\ rw_result_map[i - 1].read_set
           = CondReads(rw_code, i) \cup ThenReads(rw_code, i)
               \cup ElseReads(rw_code, i)

\* C6 (amended): for every If with both arms the label recorded at the If
\* has write_set = write_set(then) \cap write_set(else) and
\* read_set = read_set(then) \cup read_set(else); what the condition reads
\* is not part of it.  The sets of an arm are those of its own leaf
\* operators: the variables one of them writes, and the variables whose
\* first access among them is a read.
C6_BranchMerge ==
  rw_pc = "done" =>
    \A i \in IfsWithElse(rw_code) :
      /\ i - 1 \in DOMAIN rw_result_map
      /\ rw_result_map[i - 1].write_set
           = ThenWrites(rw_code, i) \cap ElseWrites(rw_code, i)
      /\ rw_result_map[i - 1].read_set
           = ThenReads(rw_code, i) \cup ElseReads(rw_code, i)

\* C6 witness: the pass has annotated an If whose condition reads a local,
\* whose then arm reads and writes, and whose else arm writes nothing
C6_Witness ==
  /\ rw_pc = "done"
  /\ \E i \in IfsWithElse(rw_code) :
       /\ CondReads(rw_code, i) # {}
       /\ ThenWrites(rw_code, i) # {}
       /\ ThenReads(rw_code, i) # {}
       /\ ElseWrites(rw_code, i) = {}
       /\ rw_result_map[i - 1].write_set = {}

\* C9: dead-code elimination applied twice gives the same operator list as
\* applied once: run(run(s)) = run(s) for every operator stream s.
C9_DceIdempotent == dce_pc = "twice" => dce_twice = dce_once

\* C9 witness: a second run has been made on a list from which the first
\* run removed operators
C9_Witness ==
  /\ dce_pc = "twice"
  /\ Len(dce_once) < Len(dce_list)
  /\ Len(dce_once) >= 3

\* an operator that the pass drops: the one right after a terminator,
\* unless it is the End or Else that closes or splits the dead region
HasDeadOperator(list) ==
  \E i \in 1..(Len(list) - 1) :
    /\ list[i].op \in {"Unreachable", "Br", "BrTable", "Return"}
    /\ list[i + 1].op \notin {"End", "Else"}

\* C10 (as stated): the list returned by dead-code elimination is strictly
\* shorter than the input list, for every input.
C10_StrictlyShorter == dce_pc # "input" => Len(dce_once) < Len(dce_list)

\* C10 (amended): the returned list is never longer than the input, and it
\* is strictly shorter exactly when some Unreachable/Br/BrTable/Return of
\* the input is directly followed by an operator other than End or Else.
C10_ShorterIffDead ==
  dce_pc # "input" =>
    /\ Len(dce_once) <= Len(dce_list)
    /\ (Len(dce_once) < Len(dce_list)) <=> HasDeadOperator(dce_list)

\* C10 witness: a run that removed operators, and kept the closing End
C10_Witness ==
  /\ dce_pc = "once"
  /\ Len(dce_once) < Len(dce_list)
  /\ Len(dce_once) >= 2
  /\ dce_once[Len(dce_once)].op = "End"

(***************************************************************************)
(* Dead-code elimination keeps the nesting                                 *)
(***************************************************************************)
\* the blocks left open after the whole list, innermost last; an If that
\* has had its Else is recorded as "Else"; <<"Unbalanced">> when an End or
\* an Else has no block to belong to
RECURSIVE OpenAfter(_, _, _)
OpenAfter(list, k, open) ==
  IF k > Len(list) THEN open
  ELSE LET op == list[k].op
           n == Len(open)
       IN CASE op \in {"Block", "Loop", "If"} ->
                 OpenAfter(list, k + 1, Append(open, op))
            [] op = "Else" ->
                 IF n > 0 /\ open[n] = "If"
                 THEN OpenAfter(list, k + 1, [open EXCEPT ![n] = "Else"])
                 ELSE <<"Unbalanced">>
            [] op = "End" ->
                 IF n > 0 THEN OpenAfter(list, k + 1, SubSeq(open, 1, n - 1))
                 ELSE <<"Unbalanced">>
            [] OTHER -> OpenAfter(list, k + 1, open)

\* the list ends with the End of the function body
HasFunctionEnd(list) ==
  /\ Len(list) > 0
  /\ list[Len(list)].op = "End"
  /\ OpenAfter(SubSeq(list, 1, Len(list) - 1), 1, <<>>) = <<>>

\* structurally balanced: every End and Else belongs to a block of the list,
\* but for the last End of a function body
Balanced(list) == OpenAfter(list, 1, <<>>) = <<>> \/ HasFunctionEnd(list)

\* for every operator of the list, the counter nested_unreachable when the
\* pass reached it and whether the pass kept it
RECURSIVE DceTrace(_, _, _)
DceTrace(list, k, nu) ==
  IF k > Len(list) THEN <<>>
  ELSE LET r == dce_step(nu, list[k])
       IN <<[nu |-> nu, keep |-> r.keep]>> \o DceTrace(list, k + 1, r.nu)

KeptOf(list) == {i \in 1..Len(list) : DceTrace(list, 1, 0)[i].keep}

\* where the kept operator i of the input stands in the output
PosOf(kept, i) == Cardinality({j \in kept : j <= i})

\* the block operator an End or Else at k belongs to, if the list has it
OwnersOf(list, k) ==
  {i \in 1..(k - 1) :
     /\ IsOpener(list[i])
     /\ RelDepth(list, i, k) = 0
     /\ \A j \in (i + 1)..(k - 1) :
          list[j].op = "End" => RelDepth(list, i, j) > 0}

\* C11: for a structurally balanced input, the output of dead-code
\* elimination is the input restricted to the kept positions, in order; it
\* is balanced; a kept Block/Loop/If keeps its End and its Else, which
\* still match it in the output; a kept End or Else belongs to a kept
\* opener or, as the End of the body, to the function; and every removed
\* operator was read while nested_unreachable was greater than 0.
C11_DceKeepsNesting ==
  (dce_pc # "input" /\ Balanced(dce_list)) =>
    LET kept == KeptOf(dce_list)
        trace == DceTrace(dce_list, 1, 0)
    IN /\ Len(dce_once) = Cardinality(kept)
       /\ \A i \in kept : dce_once[PosOf(kept, i)] = dce_list[i]
       /\ Balanced(dce_once)
       /\ HasFunctionEnd(dce_once) <=> HasFunctionEnd(dce_list)
       /\ \A i \in kept :
            IsOpener(dce_list[i]) =>
              /\ EndOf(dce_list, i) \in kept
              /\ EndOf(dce_once, PosOf(kept, i))
                   = PosOf(kept, EndOf(dce_list, i))
              /\ ElsesOf(dce_list, i) \subseteq kept
              /\ ElsesOf(dce_once, PosOf(kept, i))
                   = {PosOf(kept, k) : k \in ElsesOf(dce_list, i)}
       /\ \A k \in kept :
            dce_list[k].op \in {"End", "Else"} =>
              \/ OwnersOf(dce_list, k) # {} /\ OwnersOf(dce_list, k) \subseteq kept
              \/ k = Len(dce_list) /\ HasFunctionEnd(dce_list)
       /\ \A i \in (1..Len(dce_list)) \ kept : trace[i].nu > 0

\* C11 witness: a balanced input with an If whose then-arm ends in a branch;
\* the pass kept the If, its Else and its End
C11_Witness ==
  /\ dce_pc = "once"
  /\ Balanced(dce_list)
  /\ \E i \in 1..Len(dce_list) :
       /\ dce_list[i].op = "If"
       /\ dce_list[i + 1].op = "Br"
       /\ ElsesOf(dce_list, i) = {i + 2}
       /\ {i, i + 2, EndOf(dce_list, i)} \subseteq KeptOf(dce_list)

(***************************************************************************)
(* Port ranges of the connections                                          *)
(***************************************************************************)
\* C12: every connection the graph holds, after any add_connection calls
\* and mark-and-sweep runs, has as many ports at its source as at its
\* target; a call with unequal lengths adds no edge.
C12_ConnectionsBalanced ==
  \A c \in connected : PortsLen(c[1]) = PortsLen(c[2])

(***************************************************************************)
(* A br_table with no targets                                              *)
(***************************************************************************)
\* the texts only a br_table with targets writes: the set-up of br_map, the
\* lookup of temp (which evaluates the condition) and the search tree
TableTexts ==
  {"if not br_map[{id}] then",
   "br_map[{id}] = (function() return { [0] = ... } end)()",
   "temp = br_map[{id}][cond] or {}", "if temp < {} then",
   "if temp > {} then", "elseif temp > {} then", "else", "end"}

\* the lines of a jump to `target` from under the labels
JumpLines(target, labels) ==
  IF target = 0
  THEN IF Last(labels) = "Backward" THEN <<"continue">> ELSE <<"break">>
  ELSE <<"desired = {level}", "break">>

\* C13: a BrTable whose target list is empty is written as its default Br
\* alone: the assignment that aligns the stack if the Br needs one, then
\* break or continue for target 0 and desired = level; break otherwise;
\* nothing of br_map, temp or the search tree is written.
C13_EmptyTableIsDefault ==
  (bt_pc = "written" /\ bt_table.data = <<>>) =>
    LET br == bt_table.default
        moved == br.align.length # 0 /\ br.align.new # br.align.old
        jump == IF moved THEN Tail(bt_out) ELSE bt_out
    IN  /\ moved =>
             /\ bt_out # <<>>
             /\ bt_out[1].text = "reg[new..] = reg[old..]"
             /\ bt_out[1].n = br.align.length
             /\ bt_out[1].list = <<br.align.new, br.align.old>>
        /\ [i \in DOMAIN jump |-> jump[i].text]
             = JumpLines(br.target, bt_labels)
        /\ br.target # 0 =>
             jump[1].n = Len(bt_labels) - 1 - br.target
        /\ \A i \in DOMAIN bt_out : bt_out[i].text \notin TableTexts
        /\ bt_out = BrWrite(br, bt_labels)

\* C13 witness: an empty table whose default moves a slot and leaves a Loop
\* with continue has been written
C13_Witness ==
  /\ bt_pc = "written"
  /\ bt_table.data = <<>>
  /\ bt_table.default = Br(0, MoveOne)
  /\ Last(bt_labels) = "Backward"
  /\ Len(bt_out) = 2
  /\ bt_out[2].text = "continue"

(***************************************************************************)
(* The dispatch of a br_table, run                                         *)
(***************************************************************************)
\* the depth the jump at line pc names: break behind desired = level goes
\* to level, a bare break or continue to the innermost block
TargetOfJump(code, pc, labels) ==
  IF code[pc].text = "break" /\ pc > 1
     /\ code[pc - 1].text = "desired = {level}"
  THEN Len(labels) - 1 - code[pc - 1].n
  ELSE 0

\* data[c].target if c < len(data), the target of the default otherwise
DispatchedTarget ==
  IF ex_cond < Len(bt_table.data) THEN bt_table.data[ex_cond + 1].target
  ELSE bt_table.default.target

Halted == ex_code # <<>> /\ ex_pc = Len(ex_code) + 1

\* the lines behind the setup are the search tree: the Br itself for one
\* entry; else temp < midpoint in front of the left half, temp > midpoint
\* in front of the right half, and the midpoint's Br under else
SearchTreeShape ==
  (bt_pc = "written" /\ bt_table.data # <<>>) =>
    LET list == bt_list
        tree == SubSeq(bt_out, 5, Len(bt_out))
        center == Len(list) \div 2
        mid == list[center + 1]
        left == write_search_layer(0, center, list, bt_labels)
        right == write_search_layer(center + 1, Len(list), list, bt_labels)
        under == BrWrite(mid, bt_labels)
    IN  /\ list = to_ordered_table(bt_table.data, bt_table.default)
        /\ Len(bt_out) > 4
        /\ bt_out[4] = Line("temp = br_map[{id}][cond] or {}",
                            bt_table.default.target)
        /\ Len(list) = 1 => tree = BrWrite(list[1], bt_labels)
        /\ Len(list) = 2 =>
             tree = <<Line("if temp < {} then", mid.target)>> \o left
                    \o <<Line("else", 0)>> \o under \o <<Line("end", 0)>>
        /\ Len(list) > 2 =>
             tree = <<Line("if temp < {} then", mid.target)>> \o left
                    \o <<Line("elseif temp > {} then", mid.target)>> \o right
                    \o <<Line("else", 0)>> \o under \o <<Line("end", 0)>>

\* a line of the dispatch is run: the run moves forward, it ends at a
\* break or a continue and nowhere else, and that jump closes the Br of
\* the dispatched target
DispatchStep ==
  (Running /\ bt_table.data # <<>>) =>
    LET text == ex_code[ex_pc].text
    IN  /\ ex_pc' > ex_pc
        /\ ex_pc' \notin DOMAIN ex_code => text \in {"break", "continue"}
        /\ text \in {"desired = {level}", "reg[new..] = reg[old..]"} =>
             /\ ex_pc' = ex_pc + 1
             /\ ex_code[ex_pc + 1].text
                  \in {"desired = {level}", "break", "continue"}
        /\ text \in {"break", "continue"} =>
             /\ ex_pc' = Len(ex_code) + 1
             /\ TargetOfJump(ex_code, ex_pc, bt_labels) = DispatchedTarget
             /\ \E i \in DOMAIN bt_list :
                  LET lines == BrWrite(bt_list[i], bt_labels)
                  IN  /\ bt_list[i].target = DispatchedTarget
                      /\ ex_pc >= Len(lines)
                      /\ SubSeq(ex_code, ex_pc - Len(lines) + 1, ex_pc) = lines

\* C19: for a BrTable with a non-empty target list and every condition
\* value c >= 0, running the emitted dispatch (the br_map lookup with its
\* fallback, then the search tree over the sorted de-duplicated list) runs
\* exactly one Br, the one whose target is data[c].target when c < len(data)
\* and the default's target otherwise; the search tree of one entry is the
\* Br itself, a larger one compares temp with the midpoint target, with <
\* for the left half and > for the right half
C19_DispatchRunsTheBranch ==
  /\ []SearchTreeShape
  /\ [][DispatchStep]_vars

\* C19 witness: a table of three targets whose search tree has both halves
\* has been run to its end with a condition that indexes the table
C19_Witness ==
  /\ Halted
  /\ Len(bt_table.data) = 3
  /\ Len(bt_list) >= 3
  /\ ex_cond = 1
  /\ bt_table.data[2].target # bt_table.default.target
  /\ ex_temp = Some(bt_table.data[2].target)

(***************************************************************************)
(* Branches of relative depth k > 0, run                                   *)
(***************************************************************************)
\* the loops around line pc: the length of the label stack there
LevelAt(code, pc) == Cardinality(WhilesAround(code, pc))

EscapeTexts ==
  {"break", "if desired then", "if desired == {level} then", "desired = nil"}

\* the branches of the function that the jump under way can be: written
\* under a label stack as long as the one at the line that set desired,
\* and of the depth that names the level desired holds
JumpSites ==
  {site \in lift_brs :
     /\ site.target > 0
     /\ Len(site.labels) = LevelAt(ex_code, ex_from)
     /\ Len(site.labels) - 1 - site.target = ex_desired[1]}

\* while desired is set, a Br of depth k > 0 under a stack of n labels has
\* set it to n - 1 - k, only lines of escapes and the break of the Br run,
\* the block of that level still encloses them, an escape tests for the
\* level of the block it belongs to, and desired is cleared in the body of
\* the target and nowhere else
JumpInFlight ==
  (ex_code # <<>> /\ ex_desired # None) =>
    /\ Running
    /\ ex_from \in DOMAIN ex_code
    /\ ex_code[ex_from].text = "desired = {level}"
    /\ ex_code[ex_from].n = ex_desired[1]
    /\ JumpSites # {}
    /\ ex_code[ex_pc].text \in EscapeTexts
    /\ ex_desired[1] < LevelAt(ex_code, ex_pc)
    /\ ex_code[ex_pc].text = "if desired == {level} then" =>
         ex_code[ex_pc].n = LevelAt(ex_code, ex_pc) - 1
    /\ ex_code[ex_pc].text = "desired = nil" =>
         LevelAt(ex_code, ex_pc) = ex_desired[1] + 1

\* desired = nil is run: continue follows if the target is Backward, the
\* break that leaves the target and no other block if it is Forward
ClearStep ==
  (Running /\ ex_desired # None /\ ex_code[ex_pc].text = "desired = nil") =>
    LET level == ex_desired[1]
        next == ex_code[ex_pc + 1].text
    IN  /\ ex_desired' = None
        /\ ex_pc' = ex_pc + 1
        /\ next = "continue" =>
             /\ \E site \in JumpSites : site.labels[level + 1] = "Backward"
             /\ WhilesAround(ex_code, ex_pc + 1) = WhilesAround(ex_code, ex_pc)
        /\ next # "continue" =>
             /\ \E site \in JumpSites : site.labels[level + 1] = "Forward"
             /\ next = "end"
             /\ ex_code[ex_pc + 2].text = "break"
             /\ WhilesAround(ex_code, ex_pc + 2) = WhilesAround(ex_code, ex_pc)

\* the break or continue of an escape is run: a jump is under way, and if
\* desired has been cleared it is the jump behind desired = nil, which
\* goes to the head of the target or right behind its end
EscapeJump ==
  (/\ Running
   /\ ex_code[ex_pc].text \in {"break", "continue"}
   /\ OpenAround(ex_code, ex_pc) # {}
   /\ ex_code[Innermost(OpenAround(ex_code, ex_pc))].text
        \in {"if desired then", "if desired == {level} then"}) =>
    /\ ex_from # 0
    /\ ex_desired # None =>
         /\ ex_code[ex_pc].text = "break"
         /\ ex_from' = ex_from
         /\ LevelAt(ex_code, ex_pc') = LevelAt(ex_code, ex_pc) - 1
         /\ ex_code[ex_pc'].text = "if desired then"
    /\ ex_desired = None =>
         /\ ex_from' = 0
         /\ LET level == ex_code[ex_from].n
                target == Innermost(WhilesAround(ex_code, ex_pc))
            IN  /\ LevelAt(ex_code, ex_pc) = level + 1
                /\ ex_code[ex_pc].text = "continue" =>
                     /\ ex_code[ex_pc - 1].text = "desired = nil"
                     /\ ex_pc' = target
                /\ ex_code[ex_pc].text = "break" =>
                     /\ ex_code[ex_pc - 1].text = "end"
                     /\ ex_code[ex_pc - 2].text = "desired = nil"
                     /\ ex_pc' = EndOfLine(ex_code, target) + 1
                     /\ LevelAt(ex_code, ex_pc') = level

\* C18: running the lines of a Br of depth k > 0, reached under a label
\* stack of length n, takes control to the block of level n - 1 - k and to
\* no other: the k inner blocks are left by break with no further statement
\* of their bodies run, the escape of every block in between breaks again
\* and leaves desired as it is, the escape at the level of the target sets
\* desired to nil and then continues the target if it is Backward or breaks
\* out of it if it is Forward, and no block around the target is left
\* because of this branch
C18_BranchReachesItsTarget ==
  /\ []JumpInFlight
  /\ [][ClearStep /\ EscapeJump]_vars

\* C18 witness: a Br of depth 2 under three labels has left two blocks, the
\* escape of the block in between has broken again, and the escape in the
\* target has cleared desired and is about to break out of it
C18_Witness ==
  /\ Running
  /\ ex_desired = None
  /\ ex_from # 0
  /\ ex_code[ex_from].n = 0
  /\ LevelAt(ex_code, ex_from) = 3
  /\ ex_code[ex_pc].text = "break"
  /\ ex_code[ex_pc - 2].text = "desired = nil"

(***************************************************************************)
(* The label of a block of leaf operators                                  *)
(***************************************************************************)
\* the Block and Loop operators whose body holds leaf operators only
LeafBlocks(code) ==
  {i \in DOMAIN code :
     /\ code[i].op \in {"Block", "Loop"}
     /\ \A k \in (i + 1)..(EndOf(code, i) - 1) : IsLeaf(code[k])}

\* the variables the leaves of the body write, and those whose first
\* access in the order of the program is a read
BodyWrites(code, i) ==
  {v \in {Local(0), Global(0)} :
     \E k \in (i + 1)..(EndOf(code, i) - 1) :
       \/ /\ v.ns = "Local"
          /\ code[k] \in {Op("LocalSet", v.id), Op("LocalTee", v.id)}
       \/ /\ v.ns = "Global"
          /\ code[k] = Op("GlobalSet", v.id)}
Accesses(code, i, v) ==
  {k \in (i + 1)..(EndOf(code, i) - 1) :
     \/ v.ns = "Local"
        /\ code[k] \in {Op("LocalGet", v.id), Op("LocalSet", v.id),
                        Op("LocalTee", v.id)}
     \/ v.ns = "Global"
        /\ code[k] \in {Op("GlobalGet", v.id), Op("GlobalSet", v.id)}}
BodyFirstReads(code, i) ==
  {v \in {Local(0), Global(0)} :
     /\ Accesses(code, i, v) # {}
     /\ LET first == CHOOSE k \in Accesses(code, i, v) :
                       \A j \in Accesses(code, i, v) : k <= j
        IN  code[first].op \in {"LocalGet", "GlobalGet", "LocalTee"}}

\* C21: read/write annotation of a block whose body holds only leaf
\* operators records at the offset of the block's opener a label whose
\* write_set is the set of variables some LocalSet, LocalTee or GlobalSet
\* of the body targets and whose read_set is the set of variables whose
\* first access in the body is a read (LocalGet, GlobalGet or LocalTee); a
\* variable first accessed by LocalSet or GlobalSet is not in read_set even
\* if it is read later
C21_LeafBlockLabel ==
  rw_pc = "done" =>
    \A i \in LeafBlocks(rw_code) :
      /\ i - 1 \in DOMAIN rw_result_map
      /\ rw_result_map[i - 1].write_set = BodyWrites(rw_code, i)
      /\ rw_result_map[i - 1].read_set = BodyFirstReads(rw_code, i)

\* C21 witness: a block that writes a local before it reads it has been
\* annotated, and the local is in write_set only
C21_Witness ==
  /\ rw_pc = "done"
  /\ \E i \in LeafBlocks(rw_code) :
       /\ Local(0) \in BodyWrites(rw_code, i)
       /\ \E k \in Accesses(rw_code, i, Local(0)) : rw_code[k].op = "LocalGet"
       /\ Local(0) \notin rw_result_map[i - 1].read_set
       /\ Global(0) \in rw_result_map[i - 1].read_set

(***************************************************************************)
(* Demand annotation: the label an Else restores                           *)
(***************************************************************************)
\* the If that the Else code[k] belongs to
IfOfElse(code, k) ==
  CHOOSE i \in 1..(k - 1) : code[i].op = "If" /\ k \in ElsesOf(code, i)

ElsePositions(code) == {k \in DOMAIN code : code[k].op = "Else"}

\* C22: in demand annotation over a balanced stream the label popped at
\* each Else is exactly the snapshot of label_scratch pushed at the End
\* that closes the same If, however If and Else nest inside either arm, so
\* the then arm is scanned from the liveness just after the End of the If;
\* the label stack never underflows and is empty when the scan ends
C22_ElseRestoresItsEnd ==
  /\ dm_pc # "panic"
  /\ dm_pc = "done" =>
       /\ label_stack = <<>>
       /\ Cardinality(dm_popped) = Cardinality(ElsePositions(rw_code))
       /\ \A k \in ElsePositions(rw_code) :
            \E p \in dm_popped :
              /\ p.else = k - 1
              /\ p.end = EndOf(rw_code, IfOfElse(rw_code, k)) - 1
              /\ p.end \in DOMAIN bd_map
              /\ bd_map[p.end] = BoundaryElse
              /\ p.label = dm_at_end[p.end]

\* C22 witness: the pass has annotated an If with an If in its else arm,
\* both with two arms, so that two snapshots were on the stack
C22_Witness ==
  /\ dm_pc = "done"
  /\ \E p, q \in dm_popped :
       /\ p.else < q.else
       /\ q.end < p.end

(***************************************************************************)
(* The three passes on one operator list                                   *)
(***************************************************************************)
\* C24: boundary tracking, read/write annotation and demand annotation can
\* be run on one and the same operator list: for a function body of
\* balanced Block/Loop/If/Else/End nesting followed by the End that closes
\* the function none of the three pops or peeks an empty stack, read/write
\* annotation finishes with exactly one outstanding label, which it
\* records under the key usize::MAX, and every offset demand annotation
\* looks up in the label map and the boundary map is the offset of the
\* same operator in all three passes
C24_PassesShareTheBody ==
  /\ (bd_pc \in {"done", "panic"} /\ bd_code = rw_code) => bd_pc = "done"
  /\ rw_pc # "panic"
  /\ rw_pc = "done" =>
       /\ pending_stack = <<>>
       /\ SentinelKey \in DOMAIN rw_result_map
  /\ dm_pc # "panic"
  /\ dm_pc = "done" =>
       /\ bd_code = rw_code
       /\ \A k \in DOMAIN bd_map :
            rw_code[k + 1].op = "End" /\ k \in DOMAIN dm_at_end
       /\ \A k \in DOMAIN rw_result_map \ {SentinelKey} :
            IsOpener(rw_code[k + 1]) /\ k \in DOMAIN dm_result_map

(***************************************************************************)
(* Demand annotation of an If with two arms                                *)
(***************************************************************************)
\* variables that an operator strictly between lo and hi reads, at any
\* depth of nesting, with no operator between lo and it that writes them:
\* on every path that reaches the read they are read before being written
ReadUnwritten(code, lo, hi) ==
  {v \in {Local(0), Global(0)} :
     \E k \in (lo + 1)..(hi - 1) :
       /\ v \in track_operation(code[k]).read_set
       /\ \A j \in (lo + 1)..(k - 1) :
            v \notin track_operation(code[j]).write_set}

ElseOf(code, i) == CHOOSE k \in ElsesOf(code, i) : TRUE

\* C25: demand annotation is sound for an If with both arms: the set
\* recorded at the offset of the If holds every variable that is read
\* before being written on some path through the then arm or the else arm,
\* those read inside a Block, Loop or If nested in the else arm included
C25_IfDemandSound ==
  dm_pc = "done" =>
    \A i \in IfsWithElse(rw_code) :
      /\ i - 1 \in DOMAIN dm_result_map
      /\ ReadUnwritten(rw_code, i, ElseOf(rw_code, i))
           \subseteq dm_result_map[i - 1]
      /\ ReadUnwritten(rw_code, ElseOf(rw_code, i), EndOf(rw_code, i))
           \subseteq dm_result_map[i - 1]

(***************************************************************************)
(* Branches of relative depth 0                                            *)
(***************************************************************************)
\* the operator read in this step was reachable and put a branch of
\* relative depth 0 into the block under construction: as its terminator
\* (br, br_table) or as a BrIf statement
BranchTo0Added ==
  LET now == factory'.target
      was == factory.target
  IN  /\ lift_pc = "read" /\ lift_pc' = "read"
      /\ factory.nested_unreachable = 0
      /\ Len(factory'.pending) = Len(factory.pending)
      /\ \/ /\ was.last = None /\ now.last # None
            /\ \E site \in TerminatorBrs(now.last, <<>>) : site.target = 0
         \/ /\ Len(now.code) > Len(was.code)
            /\ Last(now.code).s = "BrIf"
            /\ Last(now.code).target.target = 0

\* the Block the lifter makes of the block under construction is labelled
\* by what opened it
LabelledByOpener ==
  BranchTo0Added =>
    /\ Last(lift_ctrl).kind = "Loop" =>
         BlockOf(factory'.target).label_type = "Backward"
    /\ Last(lift_ctrl).kind = "Block" =>
         BlockOf(factory'.target).label_type = "Forward"

\* a continue that is not the one of an escape
BranchContinues(out) ==
  {i \in DOMAIN out :
     out[i].text = "continue" /\ (i = 1 \/ out[i - 1].text # "desired = nil")}

\* C14: a branch of relative depth 0 in a block opened by Loop makes the
\* block a Block with label_type Backward and is written as continue; in a
\* block opened by Block it makes the label_type Forward and is written as
\* break.
C14_DepthZeroBranch ==
  /\ [](lift_pc = "written" =>
         /\ \A site \in lift_brs :
              site.target = 0 =>
                /\ site.labels # <<>>
                /\ Last(site.labels) \in {"Forward", "Backward"}
                /\ BrWrite(Br(0, NoAlign), site.labels)
                     = IF Last(site.labels) = "Backward"
                       THEN <<Line("continue", 0)>> ELSE <<Line("break", 0)>>
         /\ BranchContinues(lift_out) # {}
              <=> \E site \in lift_brs :
                    site.target = 0 /\ Last(site.labels) = "Backward")
  /\ [][LabelledByOpener]_vars

\* C14 witness: a function with a branch of depth 0 in a Loop that lies in
\* a Block has been written
C14_Witness ==
  /\ lift_pc = "written"
  /\ \E site \in lift_brs :
       /\ site.target = 0
       /\ Len(site.labels) = 3
       /\ Last(site.labels) = "Backward"
  /\ BranchContinues(lift_out) # {}

(***************************************************************************)
(* block; block; br 1; end; end                                            *)
(***************************************************************************)
\* the code create_indexed returns for the body block; block; br 1; end;
\* end of a function without results: the Block of the function, the outer
\* Block, which the branch names, and the inner Block, which ends in the Br
MultiLevelCode ==
  LET inner == [s |-> "Block", label_type |-> "None", code |-> <<>>,
                last |-> Some(TermBr(Br(1, NoAlign)))]
      outer == [s |-> "Block", label_type |-> "Forward", code |-> <<inner>>,
                last |-> None]
  IN  [s |-> "Block", label_type |-> "None", code |-> <<outer>>, last |-> None]

\* the inner block with its branch and the escape behind it, for a level
MultiLevelLines(level) ==
  << Line("while true do", 0),
     Line("desired = {level}", level), Line("break", 0),
     Line("end", 0),
     Line("if desired then", 0),
     Line("if desired == {level} then", level), Line("desired = nil", 0),
     Line("end", 0),
     Line("break", 0),
     Line("end", 0) >>

\* the lines from the third while true do on, which opens the inner block
InnerLines(out) ==
  LET whiles == {i \in DOMAIN out : out[i].text = "while true do"}
      third == CHOOSE i \in whiles : Cardinality({j \in whiles : j < i}) = 2
  IN  SubSeq(out, third, third + 9)

\* C15 (as stated): for block; block; br 1; end; end translated as a
\* function body the inner branch is written as desired = 0, break and the
\* escape behind the inner block as if desired then, if desired == 0 then
\* desired = nil end, break, end.
C15_MultiLevelZero ==
  (lift_pc = "written" /\ func_data.code = MultiLevelCode) =>
    InnerLines(lift_out) = MultiLevelLines(0)

\* C15 (amended): the level written is 1, in the branch and in the escape:
\* the body of the function is itself written as a Block, whose label is
\* level 0, so the outer block is level 1.
C15_MultiLevelOne ==
  (lift_pc = "written" /\ func_data.code = MultiLevelCode) =>
    /\ InnerLines(lift_out) = MultiLevelLines(1)
    /\ Cardinality({i \in DOMAIN lift_out :
                      lift_out[i].text = "if desired then"}) = 1

\* C15 witness: the function has been lifted and written
C15_Witness ==
  /\ lift_pc = "written"
  /\ func_data.code = MultiLevelCode
  /\ func_data.num_result = 0
  /\ Len(lift_out) > 10

(***************************************************************************)
(* linear_merge with an empty label                                        *)
(***************************************************************************)
\* C17: linear-merging with an empty label is the identity in both
\* directions: L.linear_merge(empty) leaves the read_set and the write_set
\* of L as they were, and empty.linear_merge(L) has exactly the read_set
\* and the write_set of L.
C17_LinearMergeIdentity ==
  mg_pc = "merged" =>
    /\ mg_other = DefaultLabel =>
         /\ mg_out.read_set = mg_self.read_set
         /\ mg_out.write_set = mg_self.write_set
    /\ mg_self = DefaultLabel =>
         /\ mg_out.read_set = mg_other.read_set
         /\ mg_out.write_set = mg_other.write_set

\* C17 witness: a label that reads what it writes, and more, has been
\* merged with the empty label
C17_Witness ==
  /\ mg_pc = "merged"
  /\ mg_other = DefaultLabel
  /\ mg_self.read_set \cap mg_self.write_set # {}
  /\ mg_self.read_set # mg_self.write_set
  /\ mg_out = mg_self

(***************************************************************************)
(* Boundary tracking against the nesting                                   *)
(***************************************************************************)
\* what the map has to hold for the End at operator k of a balanced list:
\* nothing, or one boundary
BoundaryOfEnd(list, k) ==
  LET opener == CHOOSE i \in OwnersOf(list, k) : TRUE
  IN  CASE list[opener].op = "Loop" -> {BoundaryLoop(opener - 1)}
        [] list[opener].op = "If" /\ ElsesOf(list, opener) # {} -> {BoundaryElse}
        [] OTHER -> {}

\* C20: over a list whose Block/Loop/If/Else/End are balanced, boundary
\* tracking returns a map with an entry at offset j exactly when operator j
\* is the End of a Loop, with value Loop{start: offset of the Loop}, or
\* the End of an If that has its own Else, with value Else; the End of a
\* Block or of an If without Else has none; the pending stack is empty at
\* the end.
C20_BoundaryMap ==
  (bd_pc # "input" /\ OpenAfter(bd_code, 1, <<>>) = <<>>) =>
    /\ bd_pc = "done"
    /\ bd_pending = <<>>
    /\ \A k \in DOMAIN bd_code :
         LET expected == IF bd_code[k].op = "End"
                         THEN BoundaryOfEnd(bd_code, k) ELSE {}
         IN  /\ (k - 1) \in DOMAIN bd_map <=> expected # {}
             /\ (k - 1) \in DOMAIN bd_map => bd_map[k - 1] \in expected
    /\ DOMAIN bd_map \subseteq 0..(Len(bd_code) - 1)

\* C20 witness: the pass has run over a Loop that holds an If with Else
C20_Witness ==
  /\ bd_pc = "done"
  /\ [i \in DOMAIN bd_code |-> bd_code[i].op]
       = <<"Loop", "If", "Else", "End", "End">>
  /\ DOMAIN bd_map = {3, 4}
  /\ bd_map[3] = BoundaryElse
  /\ bd_map[4] = BoundaryLoop(0)


(***************************************************************************)
(* The mark phase ends                                                     *)
(***************************************************************************)
\* what mark still has to do at most: every node not yet visited can be
\* pushed and popped once, every pending node is popped once
MarkRank == 2 * Cardinality(Keys \ nodes_visited) + Len(nodes_pending)

NoDuplicates(seq) == \A i, j \in DOMAIN seq : seq[i] = seq[j] => i = j

\* while mark runs, the pending nodes are visited nodes, each pending once
PendingOnce ==
  ms_pc = "mark" =>
    /\ NoDuplicates(nodes_pending)
    /\ \A i \in DOMAIN nodes_pending : nodes_pending[i] \in nodes_visited

\* one iteration of the loop of mark: the popped node is gone from the
\* list, the nodes pushed are exactly the nodes visited for the first
\* time, each pushed once, no node leaves the visited set, and the rank
\* goes down
MarkIteration ==
  (ms_pc = "mark" /\ ms_pc' = "mark") =>
    LET rest == Pop(nodes_pending)
        pushed == SubSeq(nodes_pending', Len(rest) + 1, Len(nodes_pending'))
    IN  /\ Len(nodes_pending') >= Len(rest)
        /\ SubSeq(nodes_pending', 1, Len(rest)) = rest
        /\ nodes_visited \subseteq nodes_visited'
        /\ NoDuplicates(pushed)
        /\ {pushed[i] : i \in DOMAIN pushed} = nodes_visited' \ nodes_visited
        /\ MarkRank' < MarkRank

\* C23: the mark phase of mark-and-sweep ends on every finite graph, also
\* when incoming edges and regions form cycles (a loop-back edge from the
\* end of a Theta's region to its start): every node is put into the
\* visited set and pushed onto the pending list at most once, and the
\* pending list is empty when mark returns
C23_MarkTerminates ==
  /\ [](PendingOnce /\ MarkRank >= 0
        /\ (ms_pc = "swept" => nodes_pending = <<>>))
  /\ [][MarkIteration]_vars

\* C23 witness: a run has returned on a Theta whose region start and
\* region end feed each other
C23_Witness ==
  /\ ms_pc = "swept"
  /\ \E n \in DOMAIN nodes :
       /\ nodes[n].kind = "Theta"
       /\ n \in start
       /\ LET r == nodes[n].regions[1]
          IN  /\ \E i \in DOMAIN incoming[r.start] :
                   incoming[r.start][i].node = r.end
              /\ \E i \in DOMAIN incoming[r.end] :
                   incoming[r.end][i].node = r.start

(***************************************************************************)
(* Mark-and-sweep against reachability                                     *)
(***************************************************************************)
\* the nodes one step from n in graph g: the sources of its incoming edges
\* and the start and end of each of its regions
StepFrom(g, n) ==
  IF n \in DOMAIN g.nodes /\ n \in DOMAIN g.incoming
  THEN {g.incoming[n][i].node : i \in DOMAIN g.incoming[n]}
       \cup {g.nodes[n].regions[i].start : i \in DOMAIN g.nodes[n].regions}
       \cup {g.nodes[n].regions[i].end : i \in DOMAIN g.nodes[n].regions}
  ELSE {}

RECURSIVE ReachableFrom(_, _)
ReachableFrom(g, S) ==
  LET T == S \cup UNION {StepFrom(g, n) : n \in S}
  IN  IF T = S THEN S ELSE ReachableFrom(g, T)

\* the nodes reachable from start in the graph run was called on
ReachableBefore == ReachableFrom(ms_before, ms_before.start)

\* C7: when MarkAndSweep::run has returned, the nodes (and the incoming
\* lists) that remain are exactly those reachable from start, in the graph
\* run was called on, by following the sources of incoming edges and the
\* start and end of regions; with no start nothing remains
C7_SurvivorsAreReachable ==
  ms_pc = "swept" =>
    /\ DOMAIN nodes = ReachableBefore
    /\ DOMAIN incoming = ReachableBefore

\* a run that kept a node through a region, kept one through an incoming
\* edge, and removed another
C7_Witness ==
  /\ ms_pc = "swept"
  /\ DOMAIN ms_before.nodes # DOMAIN nodes
  /\ \E n \in DOMAIN nodes : nodes[n].regions # <<>>
  /\ \E n \in DOMAIN nodes : incoming[n] # <<>> /\ incoming[n][1].node # n

\* C8: a run on the graph a run has just left does not fail, and leaves
\* the same nodes and the same incoming lists
C8_SecondRunRetains ==
  /\ ms_again => ms_pc # "panic"
  /\ (ms_again /\ ms_pc = "swept") =>
       /\ nodes = ms_before.nodes
       /\ incoming = ms_before.incoming

\* a second run has returned on a graph with a region and an edge, from
\* which the first run had removed a node
C8_Witness ==
  /\ ms_again /\ ms_pc = "swept"
  /\ \E n \in DOMAIN nodes : nodes[n].regions # <<>>
  /\ \E n \in DOMAIN nodes : incoming[n] # <<>>
  /\ Cardinality(DOMAIN nodes) < next_key - 1


(***************************************************************************)
(* The graph stays closed                                                  *)
(***************************************************************************)
GraphNow == [start |-> start, nodes |-> nodes, incoming |-> incoming]

\* a node of g names, as the source of an incoming edge or as the start or
\* end of a region, a key that g does not hold
Dangling(g) == \E n \in DOMAIN g.nodes : ~(StepFrom(g, n) \subseteq DOMAIN g.nodes)

\* C27: after any sequence of add_node, add_region, add_compound,
\* add_gamma, add_connection between existing nodes and MarkAndSweep::run
\* the graph is closed: Graph.nodes and Graph.incoming have the same keys;
\* Graph.start, if it was set before the run, is still present; the sweep
\* leaves the incoming list of every surviving node as it was; and every
\* source of an incoming edge and every region start and end that a
\* surviving node names is itself a surviving node.  A run fails only on
\* a graph that names a node an earlier run has removed.
C27_GraphClosed ==
  /\ DOMAIN nodes = DOMAIN incoming
  /\ ms_pc = "panic" => Dangling(GraphNow)
  /\ ms_pc = "swept" =>
       /\ start = ms_before.start
       /\ start \subseteq DOMAIN nodes
       /\ \A n \in DOMAIN nodes :
            /\ n \in DOMAIN ms_before.nodes
            /\ nodes[n] = ms_before.nodes[n]
            /\ incoming[n] = ms_before.incoming[n]
       /\ ~Dangling(GraphNow)

\* C27 witness: a run has returned on a graph with a start that has an
\* incoming edge from another node, and has removed a region
C27_Witness ==
  /\ ms_pc = "swept"
  /\ \E n \in start :
       /\ incoming[n] # <<>>
       /\ incoming[n][1].node # n
       /\ nodes[n].regions = <<>>
  /\ Cardinality(DOMAIN ms_before.nodes) >= Cardinality(DOMAIN nodes) + 2

(***************************************************************************)
(* The unreachable tracking of the lifter beside dead-code elimination.    *)
(***************************************************************************)
\* what dead-code elimination does with every operator of the body
DceOfBody == DceTrace(BodyRead, 1, 0)

\* the operators of the body that build_stat_list did not merely count
HandledOps ==
  LET RECURSIVE handled_from(_)
      handled_from(i) ==
        IF i > Len(lift_trace) THEN <<>>
        ELSE (IF lift_trace[i].handled THEN <<lift_trace[i].op>> ELSE <<>>)
             \o handled_from(i + 1)
  IN  handled_from(1)

\* C26: build_stat_list and DeadCodeElimination::run on one body: the two
\* nested_unreachable counters are equal before every operator that
\* build_stat_list reads, the operators the factory handles (those it gives
\* to add_instruction and the End or Else it closes or splits a dead region
\* with) are the operators the pass keeps, and on a body that the pass
\* leaves as it is the factory discards no operator and nested_unreachable
\* stays at 1 or below.
C26_TrackingAgrees ==
  LET dce == DceOfBody
      body == BodyRead
  IN  /\ \A i \in DOMAIN lift_trace :
           /\ lift_trace[i].nu = dce[i].nu
           /\ lift_trace[i].handled <=> dce[i].keep
      /\ factory.nested_unreachable = dce[Len(body)].nu
      /\ dce_pc = "once" =>
           dce_once = HandledOps \o
                      (IF dce[Len(body)].keep THEN <<Op("End", 0)>> ELSE <<>>)
      /\ dce_run(body) = body =>
           /\ \A i \in DOMAIN lift_trace :
                lift_trace[i].handled /\ lift_trace[i].nu <= 1
           /\ factory.nested_unreachable <= 1

\* build_stat_list and the pass have been through a body whose dead region
\* holds a block and is closed by an End that the factory handles
C26_Witness ==
  /\ lift_pc = "done"
  /\ dce_pc = "once"
  /\ \E i, j, k \in DOMAIN lift_trace :
       /\ i < j /\ j < k
       /\ ~lift_trace[i].handled /\ lift_trace[i].op.op = "Block"
       /\ lift_trace[j].nu = 2 /\ ~lift_trace[j].handled
       /\ lift_trace[k].nu = 1 /\ lift_trace[k].handled
       /\ lift_trace[k].op.op = "End"
  /\ Len(dce_once) < Len(dce_list)

(***************************************************************************)
(* The lifter: spills                                                      *)
(***************************************************************************)
Read(ns, id) == [ns |-> ns, id |-> id]

\* what an expression reads: locals, globals, and memories (a load reads
\* its memory, memory.size reads the size of its memory)
RECURSIVE ReadsOf(_)
ReadsOf(node) ==
  CASE node.e = "GetLocal" -> {Read("local", node.var)}
    [] node.e = "GetGlobal" -> {Read("global", node.var)}
    [] node.e = "MemorySize" -> {Read("memory", node.memory)}
    [] node.e = "LoadAt" -> {Read("memory", node.memory)} \cup ReadsOf(node.pointer)
    [] node.e = "BinOp" -> ReadsOf(node.lhs) \cup ReadsOf(node.rhs)
    [] OTHER -> {}

\* a read the written statement can change: the same local, global or
\* memory, and for a call every global and every memory
Disturbs(written, read) ==
  \/ written.what = "call" /\ read.ns \in {"global", "memory"}
  \/ written.what = read.ns /\ written.id = read.id

\* the values that were on the stack before the last operator and are
\* still there
PendingBefore ==
  SubSeq(factory.target.stack.var_list, 1,
         StackLen(factory.target.stack) - lift_written.pushed)

\* C1: when the statement of a writing operator has been added to the
\* code, no value pushed before the operator and still on the operand stack
\* reads what the statement writes
C1_SpillSoundness ==
  lift_pc = "read" =>
    \A i \in DOMAIN PendingBefore :
      \A read \in ReadsOf(PendingBefore[i]) : ~Disturbs(lift_written, read)

(***************************************************************************)
(* The lifter: what a call spills                                          *)
(***************************************************************************)
\* the expression reads a global or loads from memory, at any depth
RECURSIVE ReadsGlobalOrLoads(_)
ReadsGlobalOrLoads(node) ==
  CASE node.e \in {"GetGlobal", "LoadAt"} -> TRUE
    [] node.e = "BinOp" ->
         ReadsGlobalOrLoads(node.lhs) \/ ReadsGlobalOrLoads(node.rhs)
    [] OTHER -> FALSE

\* the expression reads a local and is more than the GetLocal itself
ReadsLocalNotBare(node) ==
  /\ node.e # "GetLocal"
  /\ \E read \in ReadsOf(node) : read.ns = "local"

\* this step has added the statement of a call
CallAdded ==
  /\ lift_pc = "read" /\ lift_pc' = "read"
  /\ lift_written'.what = "call"
  /\ Last(factory'.target.code).s \in {"Call", "CallIndirect"}

\* the values that were below the arguments of the call added in this step
BelowCall ==
  LET call == Last(factory'.target.code)
      taken == Len(call.param_list) + (IF call.s = "CallIndirect" THEN 1 ELSE 0)
  IN  1..(StackLen(factory.target.stack) - taken)

\* the value at slot i went into the temporary of the slot, by a
\* SetTemporary this step put before the call statement
SpilledBeforeCall(i) ==
  LET var == factory.target.stack.previous + i - 1
      code == factory'.target.code
  IN  /\ factory'.target.stack.var_list[i] = GetTemporary(var)
      /\ \E j \in (Len(factory.target.code) + 1)..(Len(code) - 1) :
           code[j] = SetTemporary(var, factory.target.stack.var_list[i])

\* a local.get read now pushes the GetLocal itself and adds no statement
LocalGetIsFresh ==
  LET f == build_step(factory, Op("LocalGet", 0))
  IN  /\ f.target.stack.var_list
           = Append(factory.target.stack.var_list, GetLocal(0))
      /\ f.target.code = factory.target.code

CallInCode ==
  \E j \in DOMAIN factory.target.code :
    factory.target.code[j].s \in {"Call", "CallIndirect"}

\* C16 (as stated): when a Call or CallIndirect is lifted, every value
\* below its arguments that reads a local without being a bare get, and
\* every one that reads a global or loads from memory, has been spilled by
\* a SetTemporary before the call statement; a LocalGet after the call is
\* a new GetLocal.
C16_CallSpillsLocalReads ==
  /\ [][CallAdded =>
          \A i \in BelowCall :
            (\/ ReadsLocalNotBare(factory.target.stack.var_list[i])
             \/ ReadsGlobalOrLoads(factory.target.stack.var_list[i]))
              => SpilledBeforeCall(i)]_vars
  /\ []((lift_pc = "read" /\ CallInCode) => LocalGetIsFresh)

\* C16 (amended): a call spills exactly the values below its arguments
\* that read a global or load from memory; a value that reads only locals,
\* bare or not, stays on the stack as it is; a LocalGet after the call is a
\* new GetLocal.
C16_CallSpillsGlobalAndMemoryReads ==
  /\ [][CallAdded =>
          \A i \in BelowCall :
            IF ReadsGlobalOrLoads(factory.target.stack.var_list[i])
            THEN SpilledBeforeCall(i)
            ELSE factory'.target.stack.var_list[i]
                   = factory.target.stack.var_list[i]]_vars
  /\ []((lift_pc = "read" /\ CallInCode) => LocalGetIsFresh)

\* C16 witness: a call has been lifted over a sum of a global and a local,
\* which went into the temporary of its slot before the call statement
C16_Witness ==
  /\ lift_pc = "read"
  /\ lift_written.what = "call"
  /\ Len(factory.target.code) = 2
  /\ factory.target.code[1].s = "SetTemporary"
  /\ factory.target.code[1].value.e = "BinOp"
  /\ ReadsGlobalOrLoads(factory.target.code[1].value)
  /\ ReadsLocalNotBare(factory.target.code[1].value)
  /\ factory.target.code[2].s = "Call"
  /\ factory.target.stack.var_list[1] = GetTemporary(0)

(***************************************************************************)
(* The lifter: branches and labels                                         *)
(***************************************************************************)
\* C2: every Br the emitter writes for a lifted function, with target k
\* under a label stack of length n, has k <= n - 1, and the label k levels
\* below the top of the stack is not None
C2_BrFindsLabel ==
  lift_pc = "written" =>
    \A site \in lift_brs :
      /\ site.target <= Len(site.labels) - 1
      /\ site.labels[Len(site.labels) - site.target] # "None"

\* a function was written with a Br that leaves two blocks at once: its
\* own block, which has no label, and the labelled block around it
C2_Witness ==
  /\ lift_pc = "written"
  /\ \E site \in lift_brs :
       /\ site.target = 1 /\ Len(site.labels) = 3
       /\ site.labels[3] = "None" /\ site.labels[2] # "None"

RECURSIVE Escapes(_)
RECURSIVE StatementEscapes(_)

\* the blocks the branches of the terminator go to, counted in levels
\* above the block that holds it
TerminatorEscapes(last) ==
  IF last = None THEN {}
  ELSE IF last[1].t = "Br" THEN {last[1].br.target}
  ELSE IF last[1].t = "BrTable"
       THEN {last[1].data[i].target : i \in DOMAIN last[1].data}
            \cup {last[1].default.target}
  ELSE {}

\* the levels above the block that the branches inside it go to; 0 is the
\* block itself
Escapes(block) ==
  UNION {StatementEscapes(block.code[i]) : i \in DOMAIN block.code}
  \cup TerminatorEscapes(block.last)

\* the same for a statement, in levels above the block that holds it
StatementEscapes(stat) ==
  LET Out(inner) == {e - 1 : e \in {x \in Escapes(inner) : x >= 1}}
  IN  CASE stat.s = "Block" -> Out(stat)
        [] stat.s = "If" ->
             Out(stat.on_true)
             \cup (IF stat.on_false = None THEN {} ELSE Out(stat.on_false[1]))
        [] stat.s = "BrIf" -> {stat.target.target}
        [] OTHER -> {}

RECURSIVE LabelsAgree(_)
RECURSIVE StatementLabelsAgree(_)

\* the block, and every block inside it, has a label exactly when a branch
\* inside it goes to it
LabelsAgree(block) ==
  /\ (block.label_type # "None") <=> (0 \in Escapes(block))
  /\ \A i \in DOMAIN block.code : StatementLabelsAgree(block.code[i])

StatementLabelsAgree(stat) ==
  CASE stat.s = "Block" -> LabelsAgree(stat)
    [] stat.s = "If" ->
         /\ LabelsAgree(stat.on_true)
         /\ stat.on_false # None => LabelsAgree(stat.on_false[1])
    [] OTHER -> TRUE

\* how deep blocks are nested in the block
RECURSIVE Depth(_)
Depth(block) ==
  LET Inner(stat) ==
        CASE stat.s = "Block" -> 1 + Depth(stat)
          [] stat.s = "If" ->
               1 + Max(Depth(stat.on_true),
                       IF stat.on_false = None THEN 0 ELSE Depth(stat.on_false[1]))
          [] OTHER -> 0
      RECURSIVE Deepest(_)
      Deepest(i) == IF i = 0 THEN 0 ELSE Max(Inner(block.code[i]), Deepest(i - 1))
  IN  Deepest(Len(block.code))

\* C3: every block of a lifted function (the function's block, a Block or
\* Loop, either arm of an If) has a label type other than None exactly when
\* a Br, a BrIf or an entry of a BrTable in the lifted code goes to it
C3_LabelIffTargeted ==
  lift_pc \in {"done", "written"} => LabelsAgree(func_data.code)

\* a lifted function with a block that a branch from a nested block goes
\* to, and another block that no branch goes to
C3_Witness ==
  /\ lift_pc = "done"
  /\ Depth(func_data.code) >= 2
  /\ \E i \in DOMAIN func_data.code.code :
       /\ func_data.code.code[i].s = "Block"
       /\ func_data.code.code[i].label_type # "None"
       /\ \E j \in DOMAIN func_data.code.code[i].code :
            /\ func_data.code.code[i].code[j].s = "Block"
            /\ func_data.code.code[i].code[j].label_type = "None"
            /\ 1 \in Escapes(func_data.code.code[i].code[j])

(***************************************************************************)
(* The lifter: temporaries and capacity                                    *)
(***************************************************************************)
\* one more than the highest temporary the expression names, 0 for none
RECURSIVE ExpressionTemps(_)
ExpressionTemps(node) ==
  CASE node.e = "GetTemporary" -> node.var + 1
    [] node.e = "LoadAt" -> ExpressionTemps(node.pointer)
    [] node.e = "BinOp" -> Max(ExpressionTemps(node.lhs), ExpressionTemps(node.rhs))
    [] OTHER -> 0

RECURSIVE ListTemps(_)
ListTemps(list) ==
  IF list = <<>> THEN 0
  ELSE Max(ExpressionTemps(Head(list)), ListTemps(Tail(list)))

\* a Br names temporaries when it moves values: both of its ranges
BrTemps(br) ==
  IF br.align.length = 0 \/ br.align.new = br.align.old THEN 0
  ELSE Max(br.align.new, br.align.old) + br.align.length

RECURSIVE BrListTemps(_)
BrListTemps(list) ==
  IF list = <<>> THEN 0 ELSE Max(BrTemps(Head(list)), BrListTemps(Tail(list)))

TerminatorTemps(last) ==
  IF last = None THEN 0
  ELSE IF last[1].t = "Br" THEN BrTemps(last[1].br)
  ELSE IF last[1].t = "BrTable"
       THEN Max(ExpressionTemps(last[1].condition),
                Max(BrListTemps(last[1].data), BrTemps(last[1].default)))
  ELSE 0

RECURSIVE BlockTemps(_)
RECURSIVE CodeTemps(_)
RECURSIVE StatementTemps(_)

BlockTemps(block) == Max(CodeTemps(block.code), TerminatorTemps(block.last))

CodeTemps(code) ==
  IF code = <<>> THEN 0
  ELSE Max(StatementTemps(Head(code)), CodeTemps(Tail(code)))

StatementTemps(stat) ==
  CASE stat.s = "SetTemporary" -> Max(stat.var + 1, ExpressionTemps(stat.value))
    [] stat.s \in {"SetLocal", "SetGlobal"} -> ExpressionTemps(stat.value)
    [] stat.s = "StoreAt" ->
         Max(ExpressionTemps(stat.pointer), ExpressionTemps(stat.value))
    [] stat.s = "MemoryGrow" -> Max(stat.result + 1, ExpressionTemps(stat.size))
    [] stat.s = "Call" ->
         Max(ListTemps(stat.param_list),
             IF stat.result_list.start < stat.result_list.end
             THEN stat.result_list.end ELSE 0)
    [] stat.s = "Block" -> BlockTemps(stat)
    [] stat.s = "If" ->
         Max(ExpressionTemps(stat.condition),
             Max(BlockTemps(stat.on_true),
                 IF stat.on_false = None THEN 0 ELSE BlockTemps(stat.on_false[1])))
    [] stat.s = "BrIf" -> Max(ExpressionTemps(stat.condition), BrTemps(stat.target))

\* closing a block (End, or Else closing the first arm) leaves no pending
\* block, and not the block that becomes the target, with less capacity
\* than it had
CapacityKept ==
  \A i \in DOMAIN factory.pending :
    /\ i \in DOMAIN factory'.pending =>
         factory'.pending[i].stack.capacity >= factory.pending[i].stack.capacity
    /\ (i = Len(factory'.pending) + 1 /\ lift_pc' = "read") =>
         factory'.target.stack.capacity >= factory.pending[i].stack.capacity

\* the function's end is reached: its code falls through, or a branch
\* goes to the function's block
FunctionReturns ==
  func_data.code.last = None \/ func_data.code.label_type # "None"

\* C4 as stated: num_stack covers every temporary named in the function's
\* code and in the result list the function returns (temporaries 0 to
\* num_result - 1), and closing a block never lowers a capacity
C4_NumStackCoversResults ==
  /\ [](lift_pc \in {"done", "written"} =>
         /\ func_data.num_stack >= BlockTemps(func_data.code)
         /\ func_data.num_stack >= func_data.num_result)
  /\ [][CapacityKept]_vars

\* C4: num_stack covers every temporary named in the function's code, and
\* the returned result list whenever the end of the function is reached;
\* closing a block never lowers a capacity
C4_NumStackCovers ==
  /\ [](lift_pc \in {"done", "written"} =>
         /\ func_data.num_stack >= BlockTemps(func_data.code)
         /\ FunctionReturns => func_data.num_stack >= func_data.num_result)
  /\ [][CapacityKept]_vars

\* a lifted function that returns a temporary and holds an If with both
\* arms, lifted while a value was waiting on the stack of the parent
C4_Witness ==
  /\ lift_pc = "done"
  /\ func_data.num_result = 1 /\ FunctionReturns
  /\ func_data.num_stack >= 1
  /\ BlockTemps(func_data.code) >= 1
  /\ \E i \in DOMAIN func_data.code.code :
       /\ func_data.code.code[i].s = "If"
       /\ func_data.code.code[i].on_false # None

====
